---- MODULE Spec2Model ----
(***************************************************************************)
(* Model of the Looker custom table visualization:                         *)
(*   src/src/utils/tableUtils.ts  (formatFieldLabel, getFieldValue,        *)
(*                                 transformLookerData)                    *)
(*   src/unnamed/part_002         (types, useTableLogic)                   *)
(*   src/unnamed/part_003         (Visualization, CollapsibleHeader)       *)
(*                                                                         *)
(* JavaScript strings are sequences of one-character strings, so that      *)
(* split, charAt, slice and the case conversions are computed.  Every      *)
(* JavaScript value is a record of one shape:                              *)
(*   k  the kind ("undefined", "null", "number", "string", "boolean",      *)
(*      "object", "array"),                                                *)
(*   s  the characters of a string, n the number (or 0/1 of a boolean),    *)
(*   e  the entries <<[key, val], ...>> of an object or array, in          *)
(*      insertion order (the order Object.entries yields).                 *)
(***************************************************************************)
EXTENDS Integers, Sequences, FiniteSets, TLC

VARIABLES
    \* getFieldValue applied to one row and one field identifier
    fvPath, fvLeaf, fvDirect, fvWrapped, fvField, fvResult, fvBase, fvPc,
    \* a row transformer applied to one batch of raw rows
    trData, trOut, trPc,
    \* the Visualization controller: the host SDK is there; the response the
    \* host holds; the branch the data load effect took; the error and
    \* loading state of Visualization; the data, columns, page index and
    \* page size of useTableLogic; whether the pagination reset effect is
    \* due (data or columns changed in the last render)
    sdk, queryResponse, outcome, error, isLoading, data, columns, resetPending,
    pageIndex, pageSize,
    \* the saved configuration the host holds (undefined before the host has
    \* delivered visualization data); the config state of Visualization;
    \* hasInitialConfig; whether the data load effect is due again (its
    \* handleDataUpdate dependency changed in the last render); isExpanded
    visConfig, config, hasInitialConfig, reloadDue, isExpanded,
    \* the sort order and the global filter text of useTableLogic, and the
    \* number of rows in the filtered row model the table engine computes
    \* from the data and the global filter
    sorting, globalFilter, filteredRows,
    \* formatFieldLabel applied to one field identifier
    flName, flResult, flPc,
    \* one CollapsibleHeader with its props, the last event it was given, the
    \* expanded state before that event and whether its content is mounted
    hdLoading, hdEnabled, hdExpanded, hdEvent, hdBefore, hdMounted,
    \* the setConfig updater applied to saved configurations one after the
    \* other: the saved configuration of the last run and of the run before,
    \* the config state before the last run and after it, and whether the
    \* updater of the last run returned a new value
    cfSaved, cfPrevSaved, cfPrev, cfConfig, cfChanged, cfPc,
    \* the cell renderer applied to one cell value
    clValue, clResult, clPc,
    \* the try block of handleDataUpdate applied to one query response: the
    \* rows it resolves and what it leaves to be committed
    dsResponse, dsRaw, dsResult, dsPc

varsValue == <<fvPath, fvLeaf, fvDirect, fvWrapped, fvField, fvResult, fvBase, fvPc>>

varsRows == <<trData, trOut, trPc>>

varsSettings == <<visConfig, config, hasInitialConfig, reloadDue, isExpanded>>

varsTable == <<sorting, globalFilter, filteredRows>>

varsCtl == <<sdk, queryResponse, outcome, error, isLoading, data, columns, resetPending,
             pageIndex, pageSize, varsSettings, varsTable>>

vars == <<fvPath, fvLeaf, fvDirect, fvWrapped, fvField, fvResult, fvBase, fvPc,
          trData, trOut, trPc,
          sdk, queryResponse, outcome, error, isLoading, data, columns, resetPending,
          pageIndex, pageSize, visConfig, config, hasInitialConfig, reloadDue, isExpanded,
          sorting, globalFilter, filteredRows,
          flName, flResult, flPc,
          hdLoading, hdEnabled, hdExpanded, hdEvent, hdBefore, hdMounted,
          cfSaved, cfPrevSaved, cfPrev, cfConfig, cfChanged, cfPc,
          clValue, clResult, clPc,
          dsResponse, dsRaw, dsResult, dsPc>>

varsLabel == <<flName, flResult, flPc>>

varsHeader == <<hdLoading, hdEnabled, hdExpanded, hdEvent, hdBefore, hdMounted>>

varsConfig == <<cfSaved, cfPrevSaved, cfPrev, cfConfig, cfChanged, cfPc>>

varsCell == <<clValue, clResult, clPc>>

varsSource == <<dsResponse, dsRaw, dsResult, dsPc>>

\* the variables of the other specifications
exceptValue ==
    <<varsRows, varsCtl, varsLabel, varsHeader, varsConfig, varsCell, varsSource>>

exceptRows ==
    <<varsValue, varsCtl, varsLabel, varsHeader, varsConfig, varsCell, varsSource>>

exceptCtl ==
    <<varsValue, varsRows, varsLabel, varsHeader, varsConfig, varsCell, varsSource>>

exceptLabel ==
    <<varsValue, varsRows, varsCtl, varsHeader, varsConfig, varsCell, varsSource>>

exceptHeader ==
    <<varsValue, varsRows, varsCtl, varsLabel, varsConfig, varsCell, varsSource>>

exceptConfig ==
    <<varsValue, varsRows, varsCtl, varsLabel, varsHeader, varsCell, varsSource>>

exceptCell ==
    <<varsValue, varsRows, varsCtl, varsLabel, varsHeader, varsConfig, varsSource>>

exceptSource == <<varsValue, varsRows, varsCtl, varsLabel, varsHeader, varsConfig, varsCell>>

(***************************************************************************)
(* JavaScript values                                                       *)
(***************************************************************************)
Undefined == [k |-> "undefined", s |-> <<>>, n |-> 0, e |-> <<>>]

Null == [k |-> "null", s |-> <<>>, n |-> 0, e |-> <<>>]

Num(i) == [k |-> "number", s |-> <<>>, n |-> i, e |-> <<>>]

Str(chars) == [k |-> "string", s |-> chars, n |-> 0, e |-> <<>>]

Bool(b) == [k |-> "boolean", s |-> <<>>, n |-> IF b THEN 1 ELSE 0, e |-> <<>>]

Ent(key, val) == [key |-> key, val |-> val]

Obj(entries) == [k |-> "object", s |-> <<>>, n |-> 0, e |-> entries]

RECURSIVE ItemEntries(_)
ItemEntries(items) ==
    IF items = <<>> THEN <<>>
    ELSE <<Ent(<<>>, Head(items))>> \o ItemEntries(Tail(items))

\* an array; its items carry no key
Arr(items) == [k |-> "array", s |-> <<>>, n |-> 0, e |-> ItemEntries(items)]

\* the outcome of an evaluation that raised an exception
Thrown == [k |-> "thrown", s |-> <<>>, n |-> 0, e |-> <<>>]

\* a property defined by a getter that raises when it is read
Getter == [k |-> "getter", s |-> <<>>, n |-> 0, e |-> <<>>]

\* no result yet
Pending == [k |-> "pending", s |-> <<>>, n |-> 0, e |-> <<>>]

\* typeof v === 'object' && v !== null
IsObject(v) == v.k \in {"object", "array"}

\* key in v, for an object v
HasKey(v, key) == \E i \in 1..Len(v.e) : v.e[i].key = key

\* v[key]: undefined when absent, an exception when a getter raises
Get(v, key) ==
    IF HasKey(v, key)
    THEN LET i == CHOOSE j \in 1..Len(v.e) : v.e[j].key = key
         IN IF v.e[i].val = Getter THEN Thrown ELSE v.e[i].val
    ELSE Undefined

\* Boolean(v)
Truthy(v) ==
    CASE v.k \in {"undefined", "null"} -> FALSE
      [] v.k \in {"number", "boolean"} -> v.n # 0
      [] v.k = "string" -> v.s # <<>>
      [] OTHER -> TRUE

(***************************************************************************)
(* Strings                                                                 *)
(***************************************************************************)
S_value == <<"v", "a", "l", "u", "e">>

S_rendered == <<"r", "e", "n", "d", "e", "r", "e", "d">>

S_a == <<"a">>

S_b == <<"b">>

S_c == <<"c">>

S_a_b == <<"a", ".", "b">>

S_a_b_c == <<"a", ".", "b", ".", "c">>

S_a_value == <<"a", ".", "v", "a", "l", "u", "e">>

S_x_y == <<"x", ".", "y">>

S_hi == <<"h", "i">>

S_7_orders == <<"7", " ", "o", "r", "d", "e", "r", "s">>

RECURSIVE SplitFrom(_, _, _, _)
SplitFrom(chars, sep, i, cur) ==
    IF i > Len(chars) THEN <<cur>>
    ELSE IF chars[i] = sep
         THEN <<cur>> \o SplitFrom(chars, sep, i + 1, <<>>)
         ELSE SplitFrom(chars, sep, i + 1, Append(cur, chars[i]))

\* String.prototype.split with a one-character separator
split(chars, sep) == SplitFrom(chars, sep, 1, <<>>)

(***************************************************************************)
(* tableUtils.ts: getFieldValue                                            *)
(***************************************************************************)
\* value && typeof value === 'object' && 'value' in value
IsValueObject(v) == IsObject(v) /\ HasKey(v, S_value)

\* C7 mutant: a failed nested access reports null
RECURSIVE NestedAccessNull(_, _, _)
NestedAccessNull(parts, i, value) ==
    IF i > Len(parts) THEN value
    ELSE IF value = Thrown THEN Thrown
    ELSE IF ~IsObject(value) THEN Null
    ELSE LET next == Get(value, parts[i])
         IN NestedAccessNull(parts, i + 1,
                IF IsValueObject(next) THEN Get(next, S_value) ELSE next)

\* C8 mutant: only the value reached last is unwrapped
RECURSIVE NestedAccessUnwrapLast(_, _, _)
NestedAccessUnwrapLast(parts, i, value) ==
    IF i > Len(parts) THEN value
    ELSE IF value = Thrown THEN Thrown
    ELSE IF ~IsObject(value) THEN Undefined
    ELSE LET next == Get(value, parts[i])
         IN NestedAccessUnwrapLast(parts, i + 1,
                IF i = Len(parts) /\ IsValueObject(next)
                THEN Get(next, S_value) ELSE next)

\* the for loop over the parts of the identifier (lines 34-47)
RECURSIVE NestedAccess(_, _, _)
NestedAccess(parts, i, value) ==
    IF i > Len(parts) THEN value
    ELSE IF value = Thrown THEN Thrown
    ELSE IF ~IsObject(value) THEN Undefined
    ELSE LET next == Get(value, parts[i])
         IN NestedAccess(parts, i + 1,
                IF IsValueObject(next) THEN Get(next, S_value) ELSE next)

\* C9 mutant: the dotted path is tried before the direct key
GetFieldValueNestedFirst(obj, fieldName) ==
    IF ~IsObject(obj) THEN Thrown
    ELSE LET nested == NestedAccess(split(fieldName, "."), 1, obj)
         IN IF nested # Undefined THEN nested
            ELSE IF HasKey(obj, fieldName)
                 THEN LET value == Get(obj, fieldName)
                      IN IF IsValueObject(value) THEN Get(value, S_value) ELSE value
                 ELSE Undefined

getFieldValue(obj, fieldName) ==
    IF ~IsObject(obj) THEN Thrown     \* `in` applied to a non-object raises
    ELSE IF HasKey(obj, fieldName)
         THEN LET value == Get(obj, fieldName)
              IN IF IsValueObject(value) THEN Get(value, S_value) ELSE value
         ELSE NestedAccess(split(fieldName, "."), 1, obj)

(***************************************************************************)
(* tableUtils.ts: transformLookerData, and part_003: transformQueryData    *)
(***************************************************************************)
S_date == <<"d", "a", "t", "e">>

S_count == <<"c", "o", "u", "n", "t">>

S__rendered == <<"_", "r", "e", "n", "d", "e", "r", "e", "d">>

S_2024_01_01 == <<"2", "0", "2", "4", "-", "0", "1", "-", "0", "1">>

S_2024_01_02 == <<"2", "0", "2", "4", "-", "0", "1", "-", "0", "2">>

RECURSIVE Put(_, _, _)
\* transformedRow[key] = val: an existing key keeps its place
Put(entries, key, val) ==
    IF entries = <<>> THEN <<Ent(key, val)>>
    ELSE IF Head(entries).key = key THEN <<Ent(key, val)>> \o Tail(entries)
    ELSE <<Head(entries)>> \o Put(Tail(entries), key, val)

RECURSIVE Items(_)
\* the items of an array
Items(entries) ==
    IF entries = <<>> THEN <<>> ELSE <<Head(entries).val>> \o Items(Tail(entries))

\* C10 mutant: the field is processed without the try/catch around it
LookerFieldUncaught(value) ==
    IF value.k \in {"null", "undefined"} THEN Null
    ELSE IF IsObject(value) /\ HasKey(value, S_value) THEN Get(value, S_value)
    ELSE value

\* the try/catch of one field (lines 86-102): what transformedRow[key] becomes
LookerField(value) ==
    IF value.k \in {"null", "undefined"} THEN Null
    ELSE IF IsObject(value) /\ HasKey(value, S_value)
         THEN LET v == Get(value, S_value)
              IN IF v = Thrown THEN Null ELSE v     \* catch: the field is null
         ELSE value

RECURSIVE LookerEntriesWithRendered(_, _)
\* a forEach that also stores `<key>_rendered` beside a wrapper's value
LookerEntriesWithRendered(entries, acc) ==
    IF entries = <<>> THEN Obj(acc)
    ELSE LET v == LookerField(Head(entries).val)
             key == Head(entries).key
         IN LookerEntriesWithRendered(Tail(entries),
                IF IsValueObject(Head(entries).val)
                THEN Put(Put(acc, key, v), key \o S__rendered, v)
                ELSE Put(acc, key, v))

RECURSIVE LookerEntries(_, _)
\* Object.entries(row).forEach(...) (lines 85-103)
LookerEntries(entries, acc) ==
    IF entries = <<>> THEN Obj(acc)
    ELSE LET v == LookerField(Head(entries).val)
         IN IF v = Thrown THEN Thrown
            ELSE LookerEntries(Tail(entries), Put(acc, Head(entries).key, v))

\* the callback of data.map (lines 81-113); Object.entries raises on null
LookerRow(row) ==
    IF row.k \in {"null", "undefined"} THEN Thrown
    ELSE LookerEntries(row.e, <<>>)

RECURSIVE LookerRows(_, _)
LookerRows(rows, acc) ==
    IF rows = <<>> THEN Arr(acc)
    ELSE LET r == LookerRow(Head(rows))
         IN IF r = Thrown THEN Thrown ELSE LookerRows(Tail(rows), Append(acc, r))

transformLookerData(batch) ==
    IF batch.k # "array" THEN Thrown      \* batch.length / batch.map on a non-array
    ELSE LookerRows(Items(batch.e), <<>>)

\* C6 mutant: a wrapper object is stored as it is
QueryFieldKeepWrapper(acc, key, value) ==
    IF IsObject(value) /\ HasKey(value, S_value)
    THEN <<Put(Put(acc, key, value), key \o S__rendered, value)>>
    ELSE <<Put(acc, key, value)>>

\* one entry of a row (part_003 lines 114-122): <<the row so far>>, or <<>>
\* when reading the entry raised
QueryField(acc, key, value) ==
    IF Truthy(value) /\ IsObject(value) /\ HasKey(value, S_value)
    THEN LET v == Get(value, S_value)
             r == Get(value, S_rendered)
         IN IF v = Thrown \/ r = Thrown THEN <<>>
            ELSE <<Put(Put(acc, key, v), key \o S__rendered,
                       IF Truthy(r) THEN r ELSE v)>>
    ELSE <<Put(acc, key, value)>>

RECURSIVE QueryEntries(_, _)
QueryEntries(entries, acc) ==
    IF entries = <<>> THEN Obj(acc)
    ELSE LET next == QueryField(acc, Head(entries).key, Head(entries).val)
         IN IF next = <<>> THEN Thrown ELSE QueryEntries(Tail(entries), next[1])

\* the callback of rawData.map (part_003 lines 111-125)
QueryRow(row) ==
    IF row.k \in {"null", "undefined"} THEN Thrown
    ELSE QueryEntries(row.e, <<>>)

RECURSIVE QueryRows(_, _)
QueryRows(rows, acc) ==
    IF rows = <<>> THEN Arr(acc)
    ELSE LET r == QueryRow(Head(rows))
         IN IF r = Thrown THEN Thrown ELSE QueryRows(Tail(rows), Append(acc, r))

\* rawData.length of the log line and of the guard (part_003 lines 104-109)
LengthIsZero(v) ==
    \/ v.k = "array" /\ v.e = <<>>
    \/ v.k = "string" /\ v.s = <<>>

transformQueryData(rawData) ==
    IF rawData.k \in {"null", "undefined"} THEN Thrown   \* rawData.length, line 104
    ELSE IF ~Truthy(rawData) \/ LengthIsZero(rawData) THEN Arr(<<>>)
    ELSE IF rawData.k # "array" THEN Thrown              \* rawData.map is no function
    ELSE QueryRows(Items(rawData.e), <<>>)

(***************************************************************************)
(* tableUtils.ts: formatFieldLabel                                         *)
(***************************************************************************)
LowerCase == <<"a", "b", "c", "d", "e", "f", "g", "h", "i", "j", "k", "l", "m", "n", "o", "p", "q", "r", "s", "t", "u", "v", "w", "x", "y", "z">>

UpperCase == <<"A", "B", "C", "D", "E", "F", "G", "H", "I", "J", "K", "L", "M", "N", "O", "P", "Q", "R", "S", "T", "U", "V", "W", "X", "Y", "Z">>

\* String.prototype.toUpperCase / toLowerCase, one character
ToUpper(ch) ==
    IF \E i \in 1..Len(LowerCase) : LowerCase[i] = ch
    THEN UpperCase[CHOOSE i \in 1..Len(LowerCase) : LowerCase[i] = ch]
    ELSE ch

ToLower(ch) ==
    IF \E i \in 1..Len(UpperCase) : UpperCase[i] = ch
    THEN LowerCase[CHOOSE i \in 1..Len(UpperCase) : UpperCase[i] = ch]
    ELSE ch

\* a character the class [_\s] matches
IsWordBreak(ch) == ch \in {"_", " ", "\t", "\n", "\r"}

RECURSIVE SplitWords(_, _, _)
\* displayName.split(/[_\s]+/): a run of breaks separates two words
SplitWords(chars, i, cur) ==
    IF i > Len(chars) THEN <<cur>>
    ELSE IF IsWordBreak(chars[i])
         THEN IF i > 1 /\ IsWordBreak(chars[i - 1])
              THEN SplitWords(chars, i + 1, cur)
              ELSE <<cur>> \o SplitWords(chars, i + 1, <<>>)
         ELSE SplitWords(chars, i + 1, Append(cur, chars[i]))

\* word.charAt(0).toUpperCase() + word.slice(1).toLowerCase()
TitleCase(word) ==
    IF word = <<>> THEN <<>>
    ELSE <<ToUpper(word[1])>> \o [i \in 1..(Len(word) - 1) |-> ToLower(word[i + 1])]

RECURSIVE JoinWords(_)
\* words.map(TitleCase).join(' ')
JoinWords(words) ==
    IF Len(words) = 1 THEN TitleCase(words[1])
    ELSE TitleCase(words[1]) \o <<" ">> \o JoinWords(Tail(words))

\* a formatFieldLabel that reads the first dot-delimited segment
formatFieldLabelFirstSegment(fieldName) ==
    JoinWords(SplitWords(split(fieldName, ".")[1], 1, <<>>))

formatFieldLabel(fieldName) ==
    LET parts == split(fieldName, ".")
        displayName == parts[Len(parts)]
    IN JoinWords(SplitWords(displayName, 1, <<>>))

(***************************************************************************)
(* part_002: createColumns, and the cell renderer of a column              *)
(***************************************************************************)
S_name == <<"n", "a", "m", "e">>

S_label == <<"l", "a", "b", "e", "l">>

S_data == <<"d", "a", "t", "a">>

S__queryResponse == <<"_", "q", "u", "e", "r", "y", "R", "e", "s", "p", "o", "n", "s", "e">>

S_fieldDimensions == <<"f", "i", "e", "l", "d", "D", "i", "m", "e", "n", "s", "i", "o", "n", "s">>

S_fieldMeasures == <<"f", "i", "e", "l", "d", "M", "e", "a", "s", "u", "r", "e", "s">>

S_fieldTableCalculations == <<"f", "i", "e", "l", "d", "T", "a", "b", "l", "e", "C", "a", "l", "c", "u", "l", "a", "t", "i", "o", "n", "s">>

DigitChars == <<"0", "1", "2", "3", "4", "5", "6", "7", "8", "9">>

RECURSIVE Digits(_)
\* the decimal digits of a natural number
Digits(n) ==
    IF n < 10 THEN <<DigitChars[n + 1]>>
    ELSE Digits(n \div 10) \o <<DigitChars[(n % 10) + 1]>>

RECURSIVE Grouped(_)
\* the digits in groups of three (the en-US grouping of toLocaleString)
Grouped(n) ==
    IF n < 1000 THEN Digits(n)
    ELSE Grouped(n \div 1000) \o <<",">>
         \o <<DigitChars[((n \div 100) % 10) + 1], DigitChars[((n \div 10) % 10) + 1],
              DigitChars[(n % 10) + 1]>>

\* Number.prototype.toLocaleString of an integer
toLocaleString(n) == IF n < 0 THEN <<"-">> \o Grouped(0 - n) ELSE Grouped(n)

\* String(n) of an integer
NumberText(n) == IF n < 0 THEN <<"-">> \o Digits(0 - n) ELSE Digits(n)

RECURSIVE JSONstringify(_)
RECURSIVE JSONMembers(_, _, _)
\* the members of an object or the items of an array, comma-separated; an
\* object leaves out a member whose value is undefined, an array writes null
JSONMembers(entries, isArray, first) ==
    IF entries = <<>> THEN <<>>
    ELSE LET en == Head(entries)
             skip == ~isArray /\ en.val.k = "undefined"
             text == IF isArray
                     THEN (IF en.val.k = "undefined" THEN <<"n", "u", "l", "l">>
                           ELSE JSONstringify(en.val))
                     ELSE <<"\"">> \o en.key \o <<"\"", ":">> \o JSONstringify(en.val)
         IN IF skip THEN JSONMembers(Tail(entries), isArray, first)
            ELSE (IF first THEN <<>> ELSE <<",">>) \o text
                 \o JSONMembers(Tail(entries), isArray, FALSE)

\* JSON.stringify of a value without functions or cycles
JSONstringify(v) ==
    CASE v.k = "null" -> <<"n", "u", "l", "l">>
      [] v.k = "number" -> NumberText(v.n)
      [] v.k = "boolean" -> IF v.n = 1 THEN <<"t", "r", "u", "e">>
                            ELSE <<"f", "a", "l", "s", "e">>
      [] v.k = "string" -> <<"\"">> \o v.s \o <<"\"">>
      [] v.k = "array" -> <<"[">> \o JSONMembers(v.e, TRUE, TRUE) \o <<"]">>
      [] v.k = "object" -> <<"{">> \o JSONMembers(v.e, FALSE, TRUE) \o <<"}">>
      [] OTHER -> <<>>

S_dash == <<"-">>

\* the cell renderer (part_002 lines 225-245): what the cell displays
cell(value) ==
    IF value.k \in {"null", "undefined"} THEN Str(S_dash)
    ELSE IF IsObject(value)
         THEN IF HasKey(value, S_value)
              THEN LET r == Get(value, S_rendered)
                       v == Get(value, S_value)
                   IN IF Truthy(r) THEN r ELSE IF Truthy(v) THEN v ELSE Str(S_dash)
              ELSE Str(JSONstringify(value))
    ELSE IF value.k = "number" THEN Str(toLocaleString(value.n))
    ELSE value

\* one field descriptor of a field list (lines 177-181): <<[name, label]>>,
\* or <<>> when reading it raises
FieldOf(f) ==
    IF f.k \in {"null", "undefined"} THEN <<>>            \* dim.name of null
    ELSE LET name == Get(f, S_name)
             label == Get(f, S_label)
         IN IF Truthy(label) THEN <<[name |-> name, label |-> label]>>
            ELSE IF name.k # "string" THEN <<>>            \* name.split of a non-string
            ELSE <<[name |-> name, label |-> Str(formatFieldLabel(name.s))]>>

RECURSIVE FieldList(_, _)
\* list.map(...) over the items of one field list: Thrown, or the fields
FieldList(items, acc) ==
    IF items = <<>> THEN acc
    ELSE LET f == FieldOf(Head(items))
         IN IF f = <<>> \/ acc = Thrown THEN Thrown
            ELSE FieldList(Tail(items), acc \o f)

\* if (queryResponse.<list>) allFields.push(...queryResponse.<list>.map(...))
FieldsUnder(response, key) ==
    LET list == Get(response, key)
    IN IF ~Truthy(list) THEN <<>>
       ELSE IF list.k # "array" THEN Thrown                \* list.map is no function
       ELSE FieldList(Items(list.e), <<>>)

\* allFields (lines 172-202): dimensions, then measures, then calculations
allFields(response) ==
    LET d == FieldsUnder(response, S_fieldDimensions)
        m == FieldsUnder(response, S_fieldMeasures)
        c == FieldsUnder(response, S_fieldTableCalculations)
    IN IF d = Thrown \/ m = Thrown \/ c = Thrown THEN Thrown ELSE d \o m \o c

(***************************************************************************)
(* part_003: handleDataUpdate                                              *)
(***************************************************************************)
S_dim_name == <<"e", "x", "e", "c", "u", "t", "i", "v", "e", "_", "s", "u", "m", "m", "a", "r", "y", ".", "d", "y", "n", "a", "m", "i", "c", "_", "r", "e", "p", "o", "r", "t", "i", "n", "g">>

S_dim_label == <<"R", "e", "p", "o", "r", "t", "i", "n", "g", " ", "D", "a", "t", "e">>

S_measure_name == <<"e", "x", "e", "c", "u", "t", "i", "v", "e", "_", "s", "u", "m", "m", "a", "r", "y", ".", "t", "o", "t", "a", "l", "_", "o", "r", "d", "e", "r", "_", "c", "o", "u", "n", "t", "_", "d", "y", "n", "a", "m", "i", "c">>

S_measure_label == <<"T", "o", "t", "a", "l", " ", "O", "r", "d", "e", "r", " ", "C", "o", "u", "n", "t">>

\* the fields written into handleDataUpdate (lines 190-203)
fields ==
    <<Ent(S_fieldDimensions,
          Arr(<<Obj(<<Ent(S_name, Str(S_dim_name)), Ent(S_label, Str(S_dim_label))>>)>>)),
      Ent(S_fieldMeasures,
          Arr(<<Obj(<<Ent(S_name, Str(S_measure_name)),
                      Ent(S_label, Str(S_measure_label))>>)>>))>>

RECURSIVE Spread(_, _)
\* {...target, ...source}
Spread(target, source) ==
    IF source = <<>> THEN target
    ELSE Spread(Put(target, Head(source).key, Head(source).val), Tail(source))

\* queryResponse?.<key>
Optional(v, key) == IF v.k \in {"null", "undefined"} THEN Undefined ELSE Get(v, key)

\* a resolution that prefers the top-level field
rawDataOfTopFirst(response) ==
    LET nested == Optional(Optional(response, S__queryResponse), S_data)
        top == Optional(response, S_data)
    IN IF Truthy(top) THEN top ELSE IF Truthy(nested) THEN nested ELSE Arr(<<>>)

\* queryResponse?._queryResponse?.data || queryResponse?.data || []
rawDataOf(response) ==
    LET nested == Optional(Optional(response, S__queryResponse), S_data)
        top == Optional(response, S_data)
    IN IF Truthy(nested) THEN nested ELSE IF Truthy(top) THEN top ELSE Arr(<<>>)

NoError == "null"

NoDataAvailable == "No data available"

FailedToProcess == "Failed to process visualization data"

SdkNotAvailable == "Visualization SDK not available"

(***************************************************************************)
(* part_003: the configuration of the visualization                        *)
(***************************************************************************)
S_chartTitle == <<"c", "h", "a", "r", "t", "T", "i", "t", "l", "e">>

S_titleAlignment == <<"t", "i", "t", "l", "e", "A", "l", "i", "g", "n", "m", "e", "n", "t">>

S_titleSize == <<"t", "i", "t", "l", "e", "S", "i", "z", "e">>

S_titleWeight == <<"t", "i", "t", "l", "e", "W", "e", "i", "g", "h", "t">>

S_titleColor == <<"t", "i", "t", "l", "e", "C", "o", "l", "o", "r">>

S_titlePadding == <<"t", "i", "t", "l", "e", "P", "a", "d", "d", "i", "n", "g">>

S_subtitlePosition == <<"s", "u", "b", "t", "i", "t", "l", "e", "P", "o", "s", "i", "t", "i", "o", "n">>

S_subtitleSize == <<"s", "u", "b", "t", "i", "t", "l", "e", "S", "i", "z", "e">>

S_subtitleColor == <<"s", "u", "b", "t", "i", "t", "l", "e", "C", "o", "l", "o", "r">>

S_subtitleWeight == <<"s", "u", "b", "t", "i", "t", "l", "e", "W", "e", "i", "g", "h", "t">>

S_enableSearchBar == <<"e", "n", "a", "b", "l", "e", "S", "e", "a", "r", "c", "h", "B", "a", "r">>

S_enableExpandCollapse == <<"e", "n", "a", "b", "l", "e", "E", "x", "p", "a", "n", "d", "C", "o", "l", "l", "a", "p", "s", "e">>

S_rowsPerPage == <<"r", "o", "w", "s", "P", "e", "r", "P", "a", "g", "e">>

S_enableColumnResizing == <<"e", "n", "a", "b", "l", "e", "C", "o", "l", "u", "m", "n", "R", "e", "s", "i", "z", "i", "n", "g">>

S_enableRowSelection == <<"e", "n", "a", "b", "l", "e", "R", "o", "w", "S", "e", "l", "e", "c", "t", "i", "o", "n">>

S_enableColumnFilters == <<"e", "n", "a", "b", "l", "e", "C", "o", "l", "u", "m", "n", "F", "i", "l", "t", "e", "r", "s">>

S_enablePinning == <<"e", "n", "a", "b", "l", "e", "P", "i", "n", "n", "i", "n", "g">>

S_enableGrouping == <<"e", "n", "a", "b", "l", "e", "G", "r", "o", "u", "p", "i", "n", "g">>

S_columnResizeMode == <<"c", "o", "l", "u", "m", "n", "R", "e", "s", "i", "z", "e", "M", "o", "d", "e">>

S_title == <<"t", "i", "t", "l", "e">>

S_title_alignment == <<"t", "i", "t", "l", "e", "_", "a", "l", "i", "g", "n", "m", "e", "n", "t">>

S_title_size == <<"t", "i", "t", "l", "e", "_", "s", "i", "z", "e">>

S_title_weight == <<"t", "i", "t", "l", "e", "_", "w", "e", "i", "g", "h", "t">>

S_title_color == <<"t", "i", "t", "l", "e", "_", "c", "o", "l", "o", "r">>

S_title_padding == <<"t", "i", "t", "l", "e", "_", "p", "a", "d", "d", "i", "n", "g">>

S_subtitle_position == <<"s", "u", "b", "t", "i", "t", "l", "e", "_", "p", "o", "s", "i", "t", "i", "o", "n">>

S_subtitle_size == <<"s", "u", "b", "t", "i", "t", "l", "e", "_", "s", "i", "z", "e">>

S_subtitle_color == <<"s", "u", "b", "t", "i", "t", "l", "e", "_", "c", "o", "l", "o", "r">>

S_enable_search == <<"e", "n", "a", "b", "l", "e", "_", "s", "e", "a", "r", "c", "h">>

S_enable_expand_collapse == <<"e", "n", "a", "b", "l", "e", "_", "e", "x", "p", "a", "n", "d", "_", "c", "o", "l", "l", "a", "p", "s", "e">>

S_rows_per_page == <<"r", "o", "w", "s", "_", "p", "e", "r", "_", "p", "a", "g", "e">>

S_enable_column_resizing == <<"e", "n", "a", "b", "l", "e", "_", "c", "o", "l", "u", "m", "n", "_", "r", "e", "s", "i", "z", "i", "n", "g">>

S_enable_row_selection == <<"e", "n", "a", "b", "l", "e", "_", "r", "o", "w", "_", "s", "e", "l", "e", "c", "t", "i", "o", "n">>

S_enable_column_filters == <<"e", "n", "a", "b", "l", "e", "_", "c", "o", "l", "u", "m", "n", "_", "f", "i", "l", "t", "e", "r", "s">>

S_enable_pinning == <<"e", "n", "a", "b", "l", "e", "_", "p", "i", "n", "n", "i", "n", "g">>

S_enable_grouping == <<"e", "n", "a", "b", "l", "e", "_", "g", "r", "o", "u", "p", "i", "n", "g">>

S_column_resize_mode == <<"c", "o", "l", "u", "m", "n", "_", "r", "e", "s", "i", "z", "e", "_", "m", "o", "d", "e">>

S_left == <<"l", "e", "f", "t">>

S_center == <<"c", "e", "n", "t", "e", "r">>

S_right == <<"r", "i", "g", "h", "t">>

S_compact == <<"c", "o", "m", "p", "a", "c", "t">>

S_normal == <<"n", "o", "r", "m", "a", "l">>

S_relaxed == <<"r", "e", "l", "a", "x", "e", "d">>

S_below == <<"b", "e", "l", "o", "w">>

S_onChange == <<"o", "n", "C", "h", "a", "n", "g", "e">>

S_onEnd == <<"o", "n", "E", "n", "d">>

S_subtitle == <<"s", "u", "b", "t", "i", "t", "l", "e">>

S_color_title == <<"#", "1", "F", "2", "9", "3", "7">>

S_color_subtitle == <<"#", "6", "B", "7", "2", "8", "0">>


\* NaN: a number that is falsy and equal to no integer
NaN == [k |-> "number", s |-> <<"N", "a", "N">>, n |-> 0, e |-> <<>>]

RECURSIVE TrimLeft(_)
TrimLeft(chars) ==
    IF chars # <<>> /\ Head(chars) \in {" ", "\t", "\n", "\r"} THEN TrimLeft(Tail(chars))
    ELSE chars

RECURSIVE TrimRight(_)
TrimRight(chars) ==
    IF chars # <<>> /\ chars[Len(chars)] \in {" ", "\t", "\n", "\r"}
    THEN TrimRight(SubSeq(chars, 1, Len(chars) - 1))
    ELSE chars

IsDigit(ch) == \E d \in 1..10 : DigitChars[d] = ch

RECURSIVE DigitsValue(_, _)
\* the number a sequence of decimal digits writes
DigitsValue(chars, acc) ==
    IF chars = <<>> THEN acc
    ELSE DigitsValue(Tail(chars),
                     acc * 10 + (CHOOSE d \in 0..9 : DigitChars[d + 1] = Head(chars)))

\* Number(text) for text that writes an integer in decimal, is blank, or
\* is no number at all
StringToNumber(chars) ==
    LET t == TrimRight(TrimLeft(chars))
        signed == t # <<>> /\ t[1] \in {"-", "+"}
        digits == IF signed THEN Tail(t) ELSE t
    IN IF t = <<>> THEN Num(0)
       ELSE IF digits = <<>> \/ \E i \in 1..Len(digits) : ~IsDigit(digits[i]) THEN NaN
       ELSE IF signed /\ t[1] = "-" THEN Num(0 - DigitsValue(digits, 0))
       ELSE Num(DigitsValue(digits, 0))

RECURSIVE Number(_)
\* Number(v)
Number(v) ==
    CASE v.k = "number" -> v
      [] v.k = "undefined" -> NaN
      [] v.k = "null" -> Num(0)
      [] v.k = "boolean" -> Num(v.n)
      [] v.k = "string" -> StringToNumber(v.s)
      [] v.k = "array" ->
           IF v.e = <<>> THEN Num(0)
           ELSE IF Len(v.e) > 1 THEN NaN
           ELSE IF v.e[1].val.k \in {"null", "undefined"} THEN Num(0)
           ELSE IF v.e[1].val.k = "object" THEN NaN
           ELSE Number(v.e[1].val)
      [] OTHER -> NaN

\* a || b
Or(a, b) == IF Truthy(a) THEN a ELSE b

\* a ?? b
Nullish(a, b) == IF a.k \in {"null", "undefined"} THEN b ELSE a

\* useState<VisualizationConfig>({...}) (lines 79-100)
initialConfig ==
    Obj(<<Ent(S_chartTitle, Str(<<>>)),
          Ent(S_titleAlignment, Str(S_left)),
          Ent(S_titleSize, Num(16)),
          Ent(S_titleWeight, Num(500)),
          Ent(S_titleColor, Str(S_color_title)),
          Ent(S_titlePadding, Str(S_normal)),
          Ent(S_subtitle, Str(<<>>)),
          Ent(S_subtitlePosition, Str(S_below)),
          Ent(S_subtitleSize, Num(14)),
          Ent(S_subtitleColor, Str(S_color_subtitle)),
          Ent(S_subtitleWeight, Num(400)),
          Ent(S_enableSearchBar, Bool(TRUE)),
          Ent(S_enableExpandCollapse, Bool(TRUE)),
          Ent(S_rowsPerPage, Num(10)),
          Ent(S_enableColumnResizing, Bool(TRUE)),
          Ent(S_enableRowSelection, Bool(TRUE)),
          Ent(S_enableColumnFilters, Bool(TRUE)),
          Ent(S_enablePinning, Bool(TRUE)),
          Ent(S_enableGrouping, Bool(TRUE)),
          Ent(S_columnResizeMode, Str(S_onChange))>>)

\* newConfig of the setConfig updater (lines 456-478)
newConfigOf(prevConfig, saved) ==
    Obj(Spread(prevConfig.e,
        <<Ent(S_chartTitle, Or(Get(saved, S_title), Str(<<>>))),
          Ent(S_titleAlignment, Or(Get(saved, S_title_alignment), Str(S_left))),
          Ent(S_titleSize, Or(Number(Get(saved, S_title_size)), Num(16))),
          Ent(S_titleWeight, Or(Number(Get(saved, S_title_weight)), Num(500))),
          Ent(S_titleColor, Or(Get(saved, S_title_color), Str(S_color_title))),
          Ent(S_titlePadding, Or(Get(saved, S_title_padding), Str(S_normal))),
          Ent(S_subtitle, Or(Get(saved, S_subtitle), Str(<<>>))),
          Ent(S_subtitlePosition, Or(Get(saved, S_subtitle_position), Str(S_below))),
          Ent(S_subtitleSize, Or(Number(Get(saved, S_subtitle_size)), Num(14))),
          Ent(S_subtitleColor, Or(Get(saved, S_subtitle_color), Str(S_color_subtitle))),
          Ent(S_subtitleWeight, Num(400)),
          Ent(S_enableSearchBar, Nullish(Get(saved, S_enable_search), Bool(TRUE))),
          Ent(S_enableExpandCollapse,
              Nullish(Get(saved, S_enable_expand_collapse), Bool(TRUE))),
          Ent(S_rowsPerPage, Or(Number(Get(saved, S_rows_per_page)), Num(10))),
          Ent(S_enableColumnResizing,
              Nullish(Get(saved, S_enable_column_resizing), Bool(TRUE))),
          Ent(S_enableRowSelection,
              Nullish(Get(saved, S_enable_row_selection), Bool(TRUE))),
          Ent(S_enableColumnFilters,
              Nullish(Get(saved, S_enable_column_filters), Bool(TRUE))),
          Ent(S_enablePinning, Nullish(Get(saved, S_enable_pinning), Bool(TRUE))),
          Ent(S_enableGrouping, Nullish(Get(saved, S_enable_grouping), Bool(TRUE))),
          Ent(S_columnResizeMode,
              Or(Get(saved, S_column_resize_mode), Str(S_onChange)))>>))

\* an updater that hands back the new configuration whatever the old one is
setConfigAlways(prevConfig, saved) ==
    [changed |-> TRUE, config |-> newConfigOf(prevConfig, saved)]

\* the setConfig updater (lines 454-482): [changed, config]; the previous
\* object is handed back when the two JSON texts are equal
setConfigUpdater(prevConfig, saved) ==
    LET newConfig == newConfigOf(prevConfig, saved)
    IN IF JSONstringify(newConfig) # JSONstringify(prevConfig)
       THEN [changed |-> TRUE, config |-> newConfig]
       ELSE [changed |-> FALSE, config |-> prevConfig]

\* tableFeatures (lines 129-145)
tableFeatures(cfg) ==
    Obj(<<Ent(S_enableColumnResizing, Get(cfg, S_enableColumnResizing)),
          Ent(S_enableRowSelection, Get(cfg, S_enableRowSelection)),
          Ent(S_enableColumnFilters, Get(cfg, S_enableColumnFilters)),
          Ent(S_enablePinning, Get(cfg, S_enablePinning)),
          Ent(S_enableGrouping, Get(cfg, S_enableGrouping)),
          Ent(S_columnResizeMode, Get(cfg, S_columnResizeMode)),
          Ent(S_rowsPerPage, Get(cfg, S_rowsPerPage))>>)

S_columns == <<"c", "o", "l", "u", "m", "n", "s">>

S_defaultColumn == <<"d", "e", "f", "a", "u", "l", "t", "C", "o", "l", "u", "m", "n">>

S_state == <<"s", "t", "a", "t", "e">>

S_sorting == <<"s", "o", "r", "t", "i", "n", "g">>

S_globalFilter == <<"g", "l", "o", "b", "a", "l", "F", "i", "l", "t", "e", "r">>

S_pagination == <<"p", "a", "g", "i", "n", "a", "t", "i", "o", "n">>

S_pageIndex == <<"p", "a", "g", "e", "I", "n", "d", "e", "x">>

S_pageSize == <<"p", "a", "g", "e", "S", "i", "z", "e">>

S_columnVisibility == <<"c", "o", "l", "u", "m", "n", "V", "i", "s", "i", "b", "i", "l", "i", "t", "y">>

S_columnOrder == <<"c", "o", "l", "u", "m", "n", "O", "r", "d", "e", "r">>

S_columnFilters == <<"c", "o", "l", "u", "m", "n", "F", "i", "l", "t", "e", "r", "s">>

S_rowSelection == <<"r", "o", "w", "S", "e", "l", "e", "c", "t", "i", "o", "n">>

S_columnPinning == <<"c", "o", "l", "u", "m", "n", "P", "i", "n", "n", "i", "n", "g">>

S_expanded == <<"e", "x", "p", "a", "n", "d", "e", "d">>

S_getCoreRowModel == <<"g", "e", "t", "C", "o", "r", "e", "R", "o", "w", "M", "o", "d", "e", "l">>

S_getSortedRowModel == <<"g", "e", "t", "S", "o", "r", "t", "e", "d", "R", "o", "w", "M", "o", "d", "e", "l">>

S_getFilteredRowModel == <<"g", "e", "t", "F", "i", "l", "t", "e", "r", "e", "d", "R", "o", "w", "M", "o", "d", "e", "l">>

S_getPaginationRowModel == <<"g", "e", "t", "P", "a", "g", "i", "n", "a", "t", "i", "o", "n", "R", "o", "w", "M", "o", "d", "e", "l">>

S_getGroupedRowModel == <<"g", "e", "t", "G", "r", "o", "u", "p", "e", "d", "R", "o", "w", "M", "o", "d", "e", "l">>

S_getExpandedRowModel == <<"g", "e", "t", "E", "x", "p", "a", "n", "d", "e", "d", "R", "o", "w", "M", "o", "d", "e", "l">>

S_onSortingChange == <<"o", "n", "S", "o", "r", "t", "i", "n", "g", "C", "h", "a", "n", "g", "e">>

S_onGlobalFilterChange == <<"o", "n", "G", "l", "o", "b", "a", "l", "F", "i", "l", "t", "e", "r", "C", "h", "a", "n", "g", "e">>

S_onColumnVisibilityChange == <<"o", "n", "C", "o", "l", "u", "m", "n", "V", "i", "s", "i", "b", "i", "l", "i", "t", "y", "C", "h", "a", "n", "g", "e">>

S_onColumnOrderChange == <<"o", "n", "C", "o", "l", "u", "m", "n", "O", "r", "d", "e", "r", "C", "h", "a", "n", "g", "e">>

S_onColumnFiltersChange == <<"o", "n", "C", "o", "l", "u", "m", "n", "F", "i", "l", "t", "e", "r", "s", "C", "h", "a", "n", "g", "e">>

S_onRowSelectionChange == <<"o", "n", "R", "o", "w", "S", "e", "l", "e", "c", "t", "i", "o", "n", "C", "h", "a", "n", "g", "e">>

S_onColumnPinningChange == <<"o", "n", "C", "o", "l", "u", "m", "n", "P", "i", "n", "n", "i", "n", "g", "C", "h", "a", "n", "g", "e">>

S_onExpandedChange == <<"o", "n", "E", "x", "p", "a", "n", "d", "e", "d", "C", "h", "a", "n", "g", "e">>

S_setSorting == <<"s", "e", "t", "S", "o", "r", "t", "i", "n", "g">>

S_setGlobalFilter == <<"s", "e", "t", "G", "l", "o", "b", "a", "l", "F", "i", "l", "t", "e", "r">>

S_setColumnVisibility == <<"s", "e", "t", "C", "o", "l", "u", "m", "n", "V", "i", "s", "i", "b", "i", "l", "i", "t", "y">>

S_setColumnOrder == <<"s", "e", "t", "C", "o", "l", "u", "m", "n", "O", "r", "d", "e", "r">>

S_setColumnFilters == <<"s", "e", "t", "C", "o", "l", "u", "m", "n", "F", "i", "l", "t", "e", "r", "s">>

S_setRowSelection == <<"s", "e", "t", "R", "o", "w", "S", "e", "l", "e", "c", "t", "i", "o", "n">>

S_setColumnPinning == <<"s", "e", "t", "C", "o", "l", "u", "m", "n", "P", "i", "n", "n", "i", "n", "g">>

S_setExpanded == <<"s", "e", "t", "E", "x", "p", "a", "n", "d", "e", "d">>

S_enableSorting == <<"e", "n", "a", "b", "l", "e", "S", "o", "r", "t", "i", "n", "g">>

S_enableColumnFilter == <<"e", "n", "a", "b", "l", "e", "C", "o", "l", "u", "m", "n", "F", "i", "l", "t", "e", "r">>

S_enableResizing == <<"e", "n", "a", "b", "l", "e", "R", "e", "s", "i", "z", "i", "n", "g">>

S_minSize == <<"m", "i", "n", "S", "i", "z", "e">>

\* a function, by its name
Fn(name) == [k |-> "function", s |-> name, n |-> 0, e |-> <<>>]

\* defaultColumn (part_002 lines 125-132)
defaultColumn ==
    Obj(<<Ent(S_enableSorting, Bool(TRUE)),
          Ent(S_enableColumnFilter, Bool(FALSE)),
          Ent(S_enablePinning, Bool(FALSE)),
          Ent(S_enableGrouping, Bool(FALSE)),
          Ent(S_enableResizing, Bool(FALSE)),
          Ent(S_minSize, Num(100))>>)

\* a spread that takes the entries whatever the condition
SpreadAlways(cond, entries) == entries

\* ...(cond && {entries}): the entries a spread adds
SpreadIf(cond, entries) == IF Truthy(cond) THEN entries ELSE <<>>

\* tableOptions (part_002 lines 261-333) over the states of useTableLogic
\* as useState leaves them (lines 150-161), the rows, the column ids, the
\* page index and the page size
tableOptions(rows, columnIds, index, size, features) ==
    Obj(<<Ent(S_data, rows),
          Ent(S_columns, columnIds),
          Ent(S_defaultColumn, defaultColumn),
          Ent(S_state,
              Obj(<<Ent(S_sorting, Arr(<<>>)),
                    Ent(S_globalFilter, Str(<<>>)),
                    Ent(S_pagination,
                        Obj(<<Ent(S_pageIndex, Num(index)), Ent(S_pageSize, Num(size))>>)),
                    Ent(S_columnVisibility, Obj(<<>>)),
                    Ent(S_columnOrder, Arr(<<>>))>>
                  \o SpreadIf(Optional(features, S_enableColumnFilters),
                              <<Ent(S_columnFilters, Arr(<<>>))>>)
                  \o SpreadIf(Optional(features, S_enableRowSelection),
                              <<Ent(S_rowSelection, Obj(<<>>))>>)
                  \o SpreadIf(Optional(features, S_enablePinning),
                              <<Ent(S_columnPinning, Obj(<<>>))>>)
                  \o SpreadIf(Optional(features, S_enableGrouping),
                              <<Ent(S_expanded, Obj(<<>>))>>))),
          Ent(S_getCoreRowModel, Fn(S_getCoreRowModel)),
          Ent(S_getSortedRowModel, Fn(S_getSortedRowModel)),
          Ent(S_getFilteredRowModel, Fn(S_getFilteredRowModel)),
          Ent(S_getPaginationRowModel, Fn(S_getPaginationRowModel))>>
        \o SpreadIf(Optional(features, S_enableGrouping),
                    <<Ent(S_getGroupedRowModel, Fn(S_getGroupedRowModel)),
                      Ent(S_getExpandedRowModel, Fn(S_getExpandedRowModel))>>)
        \o <<Ent(S_enableRowSelection,
                 Nullish(Optional(features, S_enableRowSelection), Bool(FALSE))),
             Ent(S_enableColumnFilters,
                 Nullish(Optional(features, S_enableColumnFilters), Bool(FALSE))),
             Ent(S_enablePinning, Nullish(Optional(features, S_enablePinning), Bool(FALSE))),
             Ent(S_enableColumnResizing,
                 Nullish(Optional(features, S_enableColumnResizing), Bool(FALSE))),
             Ent(S_columnResizeMode, Optional(features, S_columnResizeMode)),
             Ent(S_onSortingChange, Fn(S_setSorting)),
             Ent(S_onGlobalFilterChange, Fn(S_setGlobalFilter)),
             Ent(S_onColumnVisibilityChange, Fn(S_setColumnVisibility)),
             Ent(S_onColumnOrderChange, Fn(S_setColumnOrder))>>
        \o SpreadIf(Optional(features, S_enableColumnFilters),
                    <<Ent(S_onColumnFiltersChange, Fn(S_setColumnFilters))>>)
        \o SpreadIf(Optional(features, S_enableRowSelection),
                    <<Ent(S_onRowSelectionChange, Fn(S_setRowSelection))>>)
        \o SpreadIf(Optional(features, S_enablePinning),
                    <<Ent(S_onColumnPinningChange, Fn(S_setColumnPinning))>>)
        \o SpreadIf(Optional(features, S_enableGrouping),
                    <<Ent(S_onExpandedChange, Fn(S_setExpanded))>>))

\* the column definitions (lines 209-249): Thrown, or one column per field
createColumns(response, features) ==
    LET all == allFields(response)
    IN IF all = Thrown THEN Thrown
       ELSE [i \in 1..Len(all) |->
                [id |-> all[i].name, header |-> all[i].label,
                 enableColumnFilter |->
                     Nullish(Optional(features, S_enableColumnFilters), Bool(FALSE)),
                 enablePinning |-> Nullish(Optional(features, S_enablePinning), Bool(FALSE)),
                 enableGrouping |-> Nullish(Optional(features, S_enableGrouping), Bool(FALSE)),
                 enableResizing |->
                     Nullish(Optional(features, S_enableColumnResizing), Bool(FALSE))]]

\* the try block (lines 169-215): what it leaves to be committed
TryDataUpdate(response, features) ==
    LET transformedData == transformQueryData(rawDataOf(response))
    IN IF transformedData = Thrown THEN [kind |-> "thrown"]
       ELSE IF transformedData.e = <<>> THEN [kind |-> "nodata"]
       ELSE LET merged == Spread(Spread(IF IsObject(response)
                                        THEN response.e ELSE <<>>, fields),
                                 <<Ent(S_data, transformedData)>>)
                newColumns == createColumns(Obj(merged), features)
            IN IF newColumns = Thrown THEN [kind |-> "thrown"]
               ELSE [kind |-> "committed", data |-> transformedData,
                     columns |-> newColumns]

\* useState(config?.rowsPerPage || 10), with the default rowsPerPage
DefaultPageSize == 10

IdleHeader ==
    /\ hdLoading = FALSE
    /\ hdEnabled = TRUE
    /\ hdExpanded = TRUE
    /\ hdEvent = "none"
    /\ hdBefore = TRUE
    /\ hdMounted = TRUE

IdleConfig ==
    /\ cfSaved = Undefined
    /\ cfPrevSaved = Undefined
    /\ cfPrev = initialConfig
    /\ cfConfig = initialConfig
    /\ cfChanged = FALSE
    /\ cfPc = "mounted"

IdleCell ==
    /\ clValue = Undefined
    /\ clResult = Undefined
    /\ clPc = "idle"

IdleSource ==
    /\ dsResponse = Undefined
    /\ dsRaw = Arr(<<>>)
    /\ dsResult = [kind |-> "idle"]
    /\ dsPc = "idle"

IdleLabel ==
    /\ flName = <<>>
    /\ flResult = <<>>
    /\ flPc = "idle"

\* the controller as mounted, before the host has delivered anything
IdleCtl ==
    /\ sdk = TRUE
    /\ queryResponse = Undefined
    /\ outcome = "mount"
    /\ error = NoError
    /\ isLoading = TRUE
    /\ data = Arr(<<>>)
    /\ columns = <<>>
    /\ resetPending = FALSE
    /\ pageIndex = 0
    /\ pageSize = DefaultPageSize
    /\ visConfig = Undefined
    /\ config = initialConfig
    /\ hasInitialConfig = FALSE
    /\ reloadDue = FALSE
    /\ isExpanded = TRUE
    /\ sorting = <<>>
    /\ globalFilter = <<>>
    /\ filteredRows = 0

(***************************************************************************)
(* SpecValue: getFieldValue on rows built from a stored path.  The row     *)
(* holds fvLeaf under the keys fvPath, one nested object per key, and      *)
(* optionally one more top-level entry fvDirect.  The value stored at      *)
(* level i is the wrapper {value: <it>} when i is in fvWrapped.            *)
(***************************************************************************)
FvPaths == {<<S_a>>, <<S_a, S_b>>, <<S_a, S_b, S_c>>, <<S_a, S_value>>}

FvLeaves ==
    {Num(5), Null, Str(S_hi), Obj(<<Ent(S_value, Num(1))>>), Obj(<<Ent(S_c, Null)>>)}

FvDirects ==
    {<<>>,
     <<Ent(S_a_b, Num(7))>>,
     <<Ent(S_a_b, Null)>>,
     <<Ent(S_a_b, Obj(<<Ent(S_value, Num(7)), Ent(S_rendered, Str(S_7_orders))>>))>>,
     <<Ent(S_a_b, Obj(<<Ent(S_value, Null)>>))>>,
     <<Ent(S_a_b, Obj(<<Ent(S_b, Num(2))>>))>>}

FvFields == {S_a, S_b, S_a_b, S_a_b_c, S_a_value, S_x_y}

RECURSIVE Stored(_, _, _, _)
\* the value stored under parts[i]
Stored(parts, leaf, wrapped, i) ==
    LET inner == IF i = Len(parts) THEN leaf
                 ELSE Obj(<<Ent(parts[i + 1], Stored(parts, leaf, wrapped, i + 1))>>)
    IN IF i \in wrapped THEN Obj(<<Ent(S_value, inner)>>) ELSE inner

RowOf(parts, leaf, wrapped, direct) ==
    Obj(direct \o <<Ent(parts[1], Stored(parts, leaf, wrapped, 1))>>)

fvRow == RowOf(fvPath, fvLeaf, fvWrapped, fvDirect)

fvPlainRow == RowOf(fvPath, fvLeaf, {}, fvDirect)

IdleValue ==
    /\ fvPath = <<S_a>>
    /\ fvLeaf = Null
    /\ fvDirect = <<>>
    /\ fvWrapped = {}
    /\ fvField = S_a
    /\ fvResult = Pending
    /\ fvBase = Pending
    /\ fvPc = "idle"

(***************************************************************************)
(* SpecRows: the two row transformers on batches of raw rows.  A raw row   *)
(* has the keys date and count; a cell is a primitive, null, a wrapper     *)
(* object, a wrapper of a wrapper, a plain object, or an object whose      *)
(* `value` is a getter that raises (the malformed wrapper the per-field    *)
(* try/catch of transformLookerData is there for).                         *)
(***************************************************************************)
MaxRows == 2

Wrapper(v) == Obj(<<Ent(S_value, v)>>)

WrapperRendered(v, r) == Obj(<<Ent(S_value, v), Ent(S_rendered, Str(r))>>)

Malformed == Obj(<<Ent(S_value, Getter)>>)

DateCells == {Str(S_2024_01_01), Wrapper(Str(S_2024_01_02)), Null, Malformed}

CountCells ==
    {Num(5), WrapperRendered(Num(7), S_7_orders), Wrapper(Null),
     Wrapper(Wrapper(Num(1))), Obj(<<Ent(S_a, Num(1))>>), Malformed}

\* rows with other key sets: no key, one absent value, three keys
OtherRows ==
    {Obj(<<>>), Obj(<<Ent(S_a, Undefined)>>),
     Obj(<<Ent(S_c, Bool(FALSE)), Ent(S_b, Wrapper(Num(0))), Ent(S_a, Str(S_hi))>>)}

RawRows ==
    {Obj(<<Ent(S_date, d), Ent(S_count, c)>>) : d \in DateCells, c \in CountCells}
    \cup OtherRows

RECURSIVE Batches(_)
Batches(n) ==
    IF n = 0 THEN {<<>>}
    ELSE LET shorter == Batches(n - 1)
         IN shorter \cup {Append(b, r) : b \in {x \in shorter : Len(x) = n - 1}, r \in RawRows}

IdleRows ==
    /\ trData = Arr(<<>>)
    /\ trOut = Pending
    /\ trPc = "idle"

InitRows ==
    /\ trData \in {Arr(b) : b \in Batches(MaxRows)}
    /\ trOut = Pending
    /\ trPc = "ready"
    /\ IdleValue
    /\ IdleCtl
    /\ IdleLabel
    /\ IdleHeader
    /\ IdleConfig
    /\ IdleCell
    /\ IdleSource

TrLooker ==
    /\ trPc = "ready"
    /\ trOut' = transformLookerData(trData)
    /\ trPc' = "looker"
    /\ UNCHANGED <<trData, exceptRows>>

TrQuery ==
    /\ trPc = "ready"
    /\ trOut' = transformQueryData(trData)
    /\ trPc' = "query"
    /\ UNCHANGED <<trData, exceptRows>>

NextRows ==
    \/ TrLooker
    \/ TrQuery

SpecRows == InitRows /\ [][NextRows]_vars

InitValue ==
    /\ IdleRows
    /\ IdleCtl
    /\ IdleLabel
    /\ IdleHeader
    /\ IdleConfig
    /\ IdleCell
    /\ IdleSource
    /\ fvPath \in FvPaths
    /\ fvLeaf \in FvLeaves
    /\ fvDirect \in FvDirects
    /\ fvField \in FvFields
    /\ fvWrapped = {}
    /\ fvResult = Pending
    /\ fvBase = Pending
    /\ fvPc = "ready"

\* the column accessor reads the field of the row
FvGet ==
    /\ fvPc = "ready"
    /\ fvResult' = getFieldValue(fvRow, fvField)
    /\ fvBase' = IF fvWrapped = {} THEN getFieldValue(fvRow, fvField) ELSE fvBase
    /\ fvPc' = "got"
    /\ UNCHANGED <<fvPath, fvLeaf, fvDirect, fvWrapped, fvField, exceptValue>>

\* the same row with one more level delivered as a wrapper object
FvWrap(l) ==
    /\ fvPc = "got"
    /\ l \notin fvWrapped
    /\ fvWrapped' = fvWrapped \cup {l}
    /\ fvResult' = Pending
    /\ fvPc' = "ready"
    /\ UNCHANGED <<fvPath, fvLeaf, fvDirect, fvField, fvBase, exceptValue>>

NextValue ==
    \/ FvGet
    \/ \E l \in 1..Len(fvPath) : FvWrap(l)

SpecValue == InitValue /\ [][NextValue]_vars

(***************************************************************************)
(* Spec: the Visualization controller.  The host holds a query response;   *)
(* the initial data load effect reads it and may run handleDataUpdate;     *)
(* the pagination reset effect of useTableLogic then runs before the next  *)
(* event; the user pages through the table and chooses a page size.        *)
(***************************************************************************)
MaxDataRows == 11

PlainRow == Obj(<<Ent(S_date, Str(S_2024_01_01)), Ent(S_count, Num(5))>>)

RECURSIVE Repeat(_, _)
Repeat(v, n) == IF n = 0 THEN <<>> ELSE <<v>> \o Repeat(v, n - 1)

Field(name) == Obj(<<Ent(S_name, Str(name))>>)

\* the rows of the scenario: a wrapped date and a bare count, then a
\* wrapped date and a count wrapped with its rendered text
ScenarioRows ==
    Arr(<<Obj(<<Ent(S_date, Wrapper(Str(S_2024_01_01))), Ent(S_count, Num(5))>>),
          Obj(<<Ent(S_date, Wrapper(Str(S_2024_01_02))),
                Ent(S_count, WrapperRendered(Num(7), S_7_orders))>>)>>)

ScenarioFields ==
    <<Ent(S_fieldDimensions, Arr(<<Field(S_date)>>)),
      Ent(S_fieldMeasures, Arr(<<Field(S_count)>>))>>

ScenarioResponse == Obj(<<Ent(S_data, ScenarioRows)>> \o ScenarioFields)

LongResponse ==
    Obj(<<Ent(S_data, Arr(Repeat(PlainRow, MaxDataRows)))>> \o ScenarioFields)

S_calc_total == <<"c", "a", "l", "c", "_", "t", "o", "t", "a", "l">>

\* the rows are under _queryResponse.data as well as under data, and the
\* response has a table calculation
NestedResponse ==
    Obj(<<Ent(S_data, Arr(<<PlainRow>>)),
          Ent(S__queryResponse, Obj(<<Ent(S_data, Arr(<<PlainRow, PlainRow>>))>>))>>
        \o ScenarioFields
        \o <<Ent(S_fieldTableCalculations, Arr(<<Field(S_calc_total)>>))>>)

NestedEmptyResponse ==
    Obj(<<Ent(S_data, Arr(<<PlainRow>>)),
          Ent(S__queryResponse, Obj(<<Ent(S_data, Arr(<<>>))>>))>> \o ScenarioFields)

\* responses with no rows to show: no response, no data field, a
\* zero-length data sequence
EmptyResponses ==
    {Undefined, Obj(ScenarioFields), Obj(<<Ent(S_data, Arr(<<>>))>> \o ScenarioFields)}

\* responses whose processing raises: a null row (row transformation), a
\* cell whose `value` getter raises, a null table calculation (column
\* creation)
FaultyResponses ==
    {Obj(<<Ent(S_data, Arr(<<PlainRow, Null>>))>> \o ScenarioFields),
     Obj(<<Ent(S_data, Arr(<<Obj(<<Ent(S_count, Malformed)>>)>>))>> \o ScenarioFields),
     Obj(<<Ent(S_data, Arr(<<PlainRow>>)), Ent(S_fieldTableCalculations, Arr(<<Null>>))>>)}

Responses ==
    EmptyResponses \cup FaultyResponses
    \cup {ScenarioResponse, LongResponse, NestedResponse, NestedEmptyResponse}

\* the sizes of the selector
PageSizes == {10, 20, 30, 40, 50}

\* the sizes the user picks
PickedSizes == {10, 20}

\* saved configurations: empty, a title, feature flags switched off, the
\* header switch, rows per page
SavedConfigs ==
    {Obj(<<>>),
     Obj(<<Ent(S_title, Str(S_hi))>>),
     Obj(<<Ent(S_enable_column_filters, Bool(FALSE))>>),
     Obj(<<Ent(S_enable_pinning, Bool(FALSE)), Ent(S_enable_grouping, Bool(FALSE))>>),
     Obj(<<Ent(S_enable_expand_collapse, Bool(FALSE))>>),
     Obj(<<Ent(S_rows_per_page, Num(20))>>)}

\* keys pressed on the header
HeaderKeys == {"Enter", " ", "Escape", "Tab", "a"}

Init ==
    /\ IdleValue
    /\ IdleRows
    /\ IdleLabel
    /\ IdleHeader
    /\ IdleConfig
    /\ IdleCell
    /\ IdleSource
    /\ sdk \in BOOLEAN
    /\ queryResponse = Undefined
    /\ outcome = "mount"
    /\ error = IF sdk THEN NoError ELSE SdkNotAvailable
    /\ isLoading = sdk
    /\ data = Arr(<<>>)
    /\ columns = <<>>
    /\ resetPending = FALSE
    /\ pageIndex = 0
    /\ pageSize = DefaultPageSize
    /\ visConfig = Undefined
    /\ config = initialConfig
    /\ hasInitialConfig = FALSE
    /\ reloadDue = FALSE
    /\ isExpanded = TRUE
    /\ sorting = <<>>
    /\ globalFilter = <<>>
    /\ filteredRows = 0

\* a catch clause that lets the exception go on and sets nothing
CatchDataUpdateRethrows ==
    /\ outcome' = "escaped"
    /\ UNCHANGED <<error, isLoading, data, columns, resetPending, filteredRows>>

\* a catch clause that also drops the rows held so far
CatchDataUpdateClearsRows ==
    /\ error' = FailedToProcess
    /\ isLoading' = FALSE
    /\ outcome' = "failed"
    /\ data' = Arr(<<>>)
    /\ resetPending' = TRUE
    /\ filteredRows' = 0
    /\ UNCHANGED <<columns>>

\* the catch clause of handleDataUpdate (lines 216-221)
CatchDataUpdate ==
    /\ error' = FailedToProcess
    /\ isLoading' = FALSE
    /\ outcome' = "failed"
    /\ UNCHANGED <<data, columns, resetPending, filteredRows>>

\* the sizes the filtered row model of the table engine can have: every
\* row without a filter text; with one, no row, one row or every row
FilteredCounts(rows, text) ==
    IF text = <<>> THEN {Len(rows.e)}
    ELSE {n \in {0, 1, Len(rows.e)} : n <= Len(rows.e)}

\* handleDataUpdate (lines 162-222)
handleDataUpdate(response) ==
    LET try == TryDataUpdate(response, tableFeatures(config))
    IN CASE try.kind = "thrown" -> CatchDataUpdate
         [] try.kind = "nodata" ->
              /\ error' = NoDataAvailable
              /\ isLoading' = FALSE
              /\ outcome' = "nodata"
              /\ UNCHANGED <<data, columns, resetPending, filteredRows>>
         [] try.kind = "committed" ->
              /\ columns' = try.columns
              /\ data' = try.data
              /\ isLoading' = FALSE
              /\ error' = NoError
              /\ outcome' = "committed"
              /\ resetPending' = TRUE
              /\ filteredRows' \in FilteredCounts(try.data, globalFilter)

\* queryResponse?.data && queryResponse.data.length > 0
HasRows(response) ==
    LET d == Optional(response, S_data)
    IN /\ Truthy(d)
       /\ \/ d.k = "array" /\ Len(d.e) > 0
          \/ d.k = "string" /\ Len(d.s) > 0

\* the initial data load effect (lines 225-246), run for the response the
\* host holds: a response the host delivers, or, when the effect is due
\* again after a render that changed handleDataUpdate (its createColumns
\* dependency follows tableFeatures), the response it still holds
DataLoadEffect(response) ==
    /\ sdk
    /\ ~resetPending
    /\ reloadDue => response = queryResponse
    /\ reloadDue' = FALSE
    /\ queryResponse' = response
    /\ IF HasRows(response)
       THEN handleDataUpdate(response)
       ELSE /\ isLoading' = TRUE
            /\ outcome' = "skipped"
            /\ UNCHANGED <<error, data, columns, resetPending, filteredRows>>
    /\ UNCHANGED <<sdk, pageIndex, pageSize, visConfig, config, hasInitialConfig,
                   isExpanded, sorting, globalFilter, exceptCtl>>

\* a configuration effect after which the data load effect is due again
\* whenever the configuration has changed
ConfigEffectAlwaysReloads(saved) ==
    /\ sdk
    /\ ~resetPending
    /\ ~reloadDue
    /\ visConfig' = saved
    /\ LET update == setConfigUpdater(config, Or(saved, Obj(<<>>)))
       IN /\ config' = update.config
          /\ reloadDue' = update.changed
    /\ hasInitialConfig' = TRUE
    /\ UNCHANGED <<sdk, queryResponse, outcome, error, isLoading, data, columns,
                   resetPending, pageIndex, pageSize, isExpanded, varsTable, exceptCtl>>

\* a configuration effect after which the data load effect is never due
\* again: the columns built before stay
ConfigEffectKeepsColumns(saved) ==
    /\ sdk
    /\ ~resetPending
    /\ ~reloadDue
    /\ visConfig' = saved
    /\ config' = setConfigUpdater(config, Or(saved, Obj(<<>>))).config
    /\ reloadDue' = FALSE
    /\ hasInitialConfig' = TRUE
    /\ UNCHANGED <<sdk, queryResponse, outcome, error, isLoading, data, columns,
                   resetPending, pageIndex, pageSize, isExpanded, varsTable, exceptCtl>>

\* the configuration effect (lines 448-487), run for the saved
\* configuration of the visualization data the host delivers
ConfigEffect(saved) ==
    /\ sdk
    /\ ~resetPending
    /\ ~reloadDue
    /\ visConfig' = saved
    /\ LET update == setConfigUpdater(config, Or(saved, Obj(<<>>)))
       IN /\ config' = update.config
          /\ reloadDue' = (tableFeatures(update.config) # tableFeatures(config))
    /\ hasInitialConfig' = TRUE
    /\ UNCHANGED <<sdk, queryResponse, outcome, error, isLoading, data, columns,
                   resetPending, pageIndex, pageSize, isExpanded, varsTable, exceptCtl>>

\* the reset effect that leaves the page index where it is
PaginationResetEffectKeepsPage ==
    /\ resetPending
    /\ resetPending' = FALSE
    /\ UNCHANGED <<pageIndex>>
    /\ UNCHANGED <<sdk, queryResponse, outcome, error, isLoading, data, columns, pageSize,
                   varsSettings, varsTable, exceptCtl>>

\* the pagination reset effect of useTableLogic (part_002 lines 339-346):
\* it runs after a render in which data or columns changed
PaginationResetEffect ==
    /\ resetPending
    /\ resetPending' = FALSE
    /\ pageIndex' = 0
    /\ UNCHANGED <<sdk, queryResponse, outcome, error, isLoading, data, columns, pageSize,
                   varsSettings, varsTable, exceptCtl>>

\* the table is on screen (part_003 lines 488-495)
TableShown == error = NoError /\ ~isLoading /\ ~resetPending /\ ~reloadDue

\* table.getPageCount(): the pages the rows fill
PageCount == (filteredRows + pageSize - 1) \div pageSize

\* table.getRowModel().rows.length: the rows of the current page
PageRows ==
    LET rest == filteredRows - pageIndex * pageSize
    IN IF rest <= 0 THEN 0 ELSE IF rest > pageSize THEN pageSize ELSE rest

\* table.getCanPreviousPage()
CanPreviousPage == pageIndex > 0

\* table.getCanNextPage()
CanNextPage == PageCount # 0 /\ pageIndex < PageCount - 1

\* a content section that is mounted only while expanded
ContentMountedWhileExpanded(expanded, enabled) == expanded

\* the content section of the header is mounted (lines 803-808)
ContentMounted(expanded, enabled) == expanded \/ ~enabled

\* handleClick (lines 729-733): the expanded state it leaves
handleClick(loading, enabled, expanded) ==
    IF ~loading /\ enabled THEN ~expanded ELSE expanded

\* a key handler that knows Enter only
handleHeaderKeyDownEnterOnly(key, loading, enabled, expanded) ==
    IF key = "Enter"
    THEN (IF ~loading /\ enabled THEN ~expanded ELSE expanded)
    ELSE expanded

\* handleHeaderKeyDown (lines 719-726): the expanded state it leaves
handleHeaderKeyDown(key, loading, enabled, expanded) ==
    IF key = "Enter" \/ key = " "
    THEN (IF ~loading /\ enabled THEN ~expanded ELSE expanded)
    ELSE expanded

\* config.enableExpandCollapse as the header tests it
ExpandCollapseEnabled == Truthy(Get(config, S_enableExpandCollapse))

\* a pager button is on screen (line 643), inside the header's content
PagerShown ==
    TableShown /\ ContentMounted(isExpanded, ExpandCollapseEnabled) /\ PageRows > 0

SetPageIndex(index) ==
    /\ pageIndex' = index
    /\ UNCHANGED <<sdk, queryResponse, outcome, error, isLoading, data, columns,
                   resetPending, pageSize, varsSettings, varsTable, exceptCtl>>

FirstPage == PagerShown /\ CanPreviousPage /\ SetPageIndex(0)

PreviousPage ==
    PagerShown /\ CanPreviousPage
    /\ SetPageIndex(IF pageIndex - 1 > 0 THEN pageIndex - 1 ELSE 0)

NextPage ==
    PagerShown /\ CanNextPage
    /\ SetPageIndex(IF pageIndex + 1 < PageCount - 1 THEN pageIndex + 1 ELSE PageCount - 1)

LastPage == PagerShown /\ CanNextPage /\ SetPageIndex(PageCount - 1)

\* a click on the header of the table
HeaderClick ==
    /\ TableShown
    /\ isExpanded' = handleClick(isLoading, ExpandCollapseEnabled, isExpanded)
    /\ UNCHANGED <<sdk, queryResponse, outcome, error, isLoading, data, columns,
                   resetPending, pageIndex, pageSize, visConfig, config, hasInitialConfig,
                   reloadDue, varsTable, exceptCtl>>

\* a key pressed on the header of the table
HeaderKeyDown(key) ==
    /\ TableShown
    /\ isExpanded' = handleHeaderKeyDown(key, isLoading, ExpandCollapseEnabled, isExpanded)
    /\ UNCHANGED <<sdk, queryResponse, outcome, error, isLoading, data, columns,
                   resetPending, pageIndex, pageSize, visConfig, config, hasInitialConfig,
                   reloadDue, varsTable, exceptCtl>>

\* the page size selector (lines 528-538)
SetPageSize(size) ==
    /\ TableShown
    /\ size \in PageSizes
    /\ pageSize' = size
    /\ UNCHANGED <<sdk, queryResponse, outcome, error, isLoading, data, columns,
                   resetPending, pageIndex, varsSettings, varsTable, exceptCtl>>

\* the search box (lines 504-514): the text typed is stored, and the table
\* engine computes the filtered row model again
SetGlobalFilter(text) ==
    /\ TableShown
    /\ Truthy(Get(config, S_enableSearchBar))
    /\ globalFilter' = text
    /\ filteredRows' \in FilteredCounts(data, text)
    /\ UNCHANGED <<sdk, queryResponse, outcome, error, isLoading, data, columns,
                   resetPending, pageIndex, pageSize, varsSettings, sorting, exceptCtl>>

\* the sort orders the table engine hands to onSortingChange when the
\* header of the first column is clicked
SortingStates ==
    {<<>>} \cup {<<[id |-> columns[1].id, desc |-> desc]>> : desc \in BOOLEAN}

\* a click on a column header (line 579): the table engine calls
\* onSortingChange, which is setSorting (part_002 line 310)
SetSorting(next) ==
    /\ TableShown
    /\ ContentMounted(isExpanded, ExpandCollapseEnabled)
    /\ next \in SortingStates
    /\ next # sorting
    /\ sorting' = next
    /\ UNCHANGED <<sdk, queryResponse, outcome, error, isLoading, data, columns,
                   resetPending, pageIndex, pageSize, varsSettings, globalFilter,
                   filteredRows, exceptCtl>>

Next ==
    \/ \E response \in Responses : DataLoadEffect(response)
    \/ \E saved \in SavedConfigs : ConfigEffect(saved)
    \/ HeaderClick
    \/ \E key \in HeaderKeys : HeaderKeyDown(key)
    \/ PaginationResetEffect
    \/ FirstPage
    \/ PreviousPage
    \/ NextPage
    \/ LastPage
    \/ \E size \in PickedSizes : SetPageSize(size)

Spec == Init /\ [][Next]_vars

fvParts == split(fvField, ".")

RECURSIVE PathPresent(_, _, _)
\* spec 4.1: every segment is a key of the value reached so far, a wrapper
\* object being replaced by its `value` before the next segment is looked up
PathPresent(value, parts, i) ==
    IF i > Len(parts) THEN TRUE
    ELSE /\ IsObject(value)
         /\ HasKey(value, parts[i])
         /\ LET next == Get(value, parts[i])
            IN PathPresent(IF IsValueObject(next) THEN Get(next, S_value) ELSE next,
                           parts, i + 1)

\* the row stores null (bare or as the `value` of a wrapper) under fvField
StoredNull ==
    \/ /\ fvDirect # <<>>
       /\ fvDirect[1].key = fvField
       /\ fvDirect[1].val \in {Null, Obj(<<Ent(S_value, Null)>>)}
    \/ /\ fvDirect = <<>> \/ fvDirect[1].key # fvField
       /\ fvParts = fvPath
       /\ fvLeaf = Null
       /\ \A i \in 2..Len(fvPath) : fvPath[i] # S_value

\* nothing stored in the plain row is itself an object with a `value` key
NoValueKeyStored ==
    /\ \A i \in 2..Len(fvPath) : fvPath[i] # S_value
    /\ ~IsValueObject(fvLeaf)

C8_SameResultAtEveryLevel ==
    (/\ fvPc = "got"
     /\ ~HasKey(fvRow, fvField)
     /\ Len(fvParts) >= 2
     /\ fvWrapped \subseteq 1..Len(fvParts))
        => fvResult = fvBase

\* C8 amended: the same, for rows whose plain form stores no object with a
\* `value` key of its own (no later segment named `value`, no such leaf).
C8_SameResultWithoutValueKeys ==
    (/\ fvPc = "got"
     /\ ~HasKey(fvRow, fvField)
     /\ Len(fvParts) >= 2
     /\ fvWrapped \subseteq 1..Len(fvParts)
     /\ NoValueKeyStored)
        => fvResult = fvBase

\* C8 witness: a.b.c read through three wrappers
C8_Witness ==
    /\ fvPc = "got"
    /\ fvField = S_a_b_c
    /\ fvPath = <<S_a, S_b, S_c>>
    /\ fvDirect = <<>>
    /\ fvWrapped = {1, 2, 3}
    /\ fvLeaf = Num(5)
    /\ fvResult = Num(5)
    /\ fvBase = Num(5)

\* C9: when the identifier is a direct key of the row, the result is the
\* entry stored under that key, or its `value` when the entry is an object
\* with a `value` key; the dotted path is not followed.
C9_DirectKeyWins ==
    (fvPc = "got" /\ HasKey(fvRow, fvField)) =>
        LET stored == IF fvDirect # <<>> /\ fvDirect[1].key = fvField
                      THEN fvDirect[1].val
                      ELSE Stored(fvPath, fvLeaf, fvWrapped, 1)
        IN fvResult = IF IsObject(stored) /\ HasKey(stored, S_value)
                      THEN Get(stored, S_value)
                      ELSE stored

\* C9 witness: the key "a.b" holds a wrapper while a.b also exists as a path
C9_Witness ==
    /\ fvPc = "got"
    /\ fvField = S_a_b
    /\ fvPath = <<S_a, S_b>>
    /\ fvLeaf = Num(5)
    /\ fvDirect # <<>>
    /\ IsValueObject(fvDirect[1].val)
    /\ fvResult = Num(7)

trIn(i) == trData.e[i].val

trRow(i) == trOut.e[i].val

Primitive(v) == v.k \in {"undefined", "null", "number", "string", "boolean"}

\* a cell of the data model (spec 3): a primitive, null, or a wrapper whose
\* `value` is a primitive or null and whose `rendered`, if any, is a string
DataModelCell(c) ==
    \/ Primitive(c)
    \/ /\ c.k = "object"
       /\ HasKey(c, S_value)
       /\ \A j \in 1..Len(c.e) :
             \/ c.e[j].key = S_value /\ Primitive(c.e[j].val)
             \/ c.e[j].key = S_rendered /\ c.e[j].val.k = "string"

\* C6 as claimed: whatever the cells of the raw rows are, no object with a
\* `value` key is left in a row put out by a row transformer.
C6_NoValueObjectSurvives ==
    (trPc \in {"looker", "query"} /\ trOut # Thrown) =>
        \A i \in 1..Len(trOut.e) :
            \A j \in 1..Len(trRow(i).e) : ~IsValueObject(trRow(i).e[j].val)

\* C6 amended: a raw row whose cells are all cells of the data model is put
\* out with primitives and null only (one level of wrapper is removed).
C6_DataModelCellsBecomePrimitive ==
    (trPc \in {"looker", "query"} /\ trOut # Thrown) =>
        /\ Len(trOut.e) = Len(trData.e)
        /\ \A i \in 1..Len(trOut.e) :
              (\A j \in 1..Len(trIn(i).e) : DataModelCell(trIn(i).e[j].val))
                  => \A j \in 1..Len(trRow(i).e) : Primitive(trRow(i).e[j].val)

\* C6 witness: a row of two wrappers went through transformQueryData
C6_Witness ==
    /\ trPc = "query"
    /\ trOut # Thrown
    /\ Len(trOut.e) = 1
    /\ trIn(1) = Obj(<<Ent(S_date, Wrapper(Str(S_2024_01_02))),
                       Ent(S_count, WrapperRendered(Num(7), S_7_orders))>>)
    /\ Get(trRow(1), S_count) = Num(7)
    /\ Get(trRow(1), S_date) = Str(S_2024_01_02)

\* what a cell that can be processed becomes (spec 4.3)
ExpectedCell(c) ==
    IF c.k \in {"null", "undefined"} THEN Null
    ELSE IF c.k = "object" /\ \E j \in 1..Len(c.e) : c.e[j].key = S_value
         THEN c.e[CHOOSE j \in 1..Len(c.e) : c.e[j].key = S_value].val
         ELSE c

\* C10: transformLookerData never aborts; a field whose processing raises is
\* null in the output, and every other field of that row and of every other
\* row is what it is without the failure.
C10_FieldFailureIsLocal ==
    trPc = "looker" =>
        /\ trOut # Thrown
        /\ Len(trOut.e) = Len(trData.e)
        /\ \A i \in 1..Len(trData.e) :
              \A j \in 1..Len(trIn(i).e) :
                  LET key == trIn(i).e[j].key
                      c == trIn(i).e[j].val
                  IN /\ HasKey(trRow(i), key)
                     /\ Get(trRow(i), key) = IF c = Malformed THEN Null ELSE ExpectedCell(c)

\* C10 witness: the first row has a malformed date beside a wrapped count
C10_Witness ==
    /\ trPc = "looker"
    /\ Len(trData.e) = 2
    /\ Get(trIn(1), S_date) = Malformed
    /\ Get(trIn(1), S_count) = WrapperRendered(Num(7), S_7_orders)
    /\ Get(trIn(2), S_count) = Num(5)
    /\ trOut # Thrown
    /\ Get(trRow(1), S_date) = Null
    /\ Get(trRow(1), S_count) = Num(7)
    /\ Get(trRow(2), S_count) = Num(5)


(***************************************************************************)
(* The controller: columns, the scenario, empty data, pagination, errors   *)
(***************************************************************************)
\* the field descriptors the response itself carries, in the order
\* dimensions, measures, table calculations
ResponseFields(response) ==
    LET under(key) == IF HasKey(response, key) /\ Get(response, key).k = "array"
                      THEN Items(Get(response, key).e) ELSE <<>>
    IN under(S_fieldDimensions) \o under(S_fieldMeasures)
       \o under(S_fieldTableCalculations)

\* C1: after a data update is committed, the columns correspond one-to-one
\* and in order to the response's fieldDimensions, then fieldMeasures, then
\* fieldTableCalculations; a column's id is the field's name and its header
\* the field's label, or formatFieldLabel(name) when there is no label.
C1_ColumnsFollowResponseFields ==
    outcome = "committed" =>
        LET f == ResponseFields(queryResponse)
        IN /\ Len(columns) = Len(f)
           /\ \A i \in 1..Len(f) :
                  /\ i <= Len(columns)
                  /\ columns[i].id = Get(f[i], S_name)
                  /\ columns[i].header =
                         IF Truthy(Get(f[i], S_label)) THEN Get(f[i], S_label)
                         ELSE Str(formatFieldLabel(Get(f[i], S_name).s))

\* what the table displays in row i under the column of the field, or
\* undefined when it has no such column
DisplayedCell(i, field) ==
    IF \E c \in 1..Len(columns) : columns[c].id = Str(field)
    THEN cell(getFieldValue(Items(data.e)[i], field))
    ELSE Undefined

\* C2: for the response with dimension date, measure count and the rows
\* {date: {value: "2024-01-01"}, count: 5} and {date: {value: "2024-01-02"},
\* count: {value: 7, rendered: "7 orders"}}, the table data is exactly
\* {date: "2024-01-01", count: 5}, {date: "2024-01-02", count: 7}, with no
\* other keys, and the cell of row 2 under count displays "7 orders".
C2_ScenarioDataAndCell ==
    (queryResponse = ScenarioResponse /\ outcome = "committed") =>
        /\ data = Arr(<<Obj(<<Ent(S_date, Str(S_2024_01_01)), Ent(S_count, Num(5))>>),
                        Obj(<<Ent(S_date, Str(S_2024_01_02)), Ent(S_count, Num(7))>>)>>)
        /\ DisplayedCell(2, S_count) = Str(S_7_orders)

\* C3: once the data load effect has run for a response with empty or
\* absent data (no response, no data field, a zero-length data sequence),
\* the error is 'No data available' and loading is cleared.
C3_EmptyDataIsNoDataError ==
    (outcome # "mount" /\ queryResponse \in EmptyResponses) =>
        (error = NoDataAvailable /\ ~isLoading)

\* C4: a committed data update makes the pagination reset due, whatever the
\* page index is; the reset is the next step, it leaves the page index 0,
\* and it is then over, so that no later step of it moves the index away.
C4_PageIndexResetAfterCommit ==
    [][/\ ((\E response \in Responses : DataLoadEffect(response)) /\ outcome' = "committed")
          => resetPending'
       /\ resetPending => (pageIndex' = 0 /\ ~resetPending')]_vars

C4_Witness == outcome = "committed" /\ resetPending /\ pageIndex = 1

\* C5: when processing the response raises (in row transformation or in
\* column creation), handleDataUpdate catches it: the error is 'Failed to
\* process visualization data', loading is cleared, and nothing propagates
\* out of the handler.
C5_ExceptionIsCaught ==
    /\ outcome # "escaped"
    /\ (outcome # "mount" /\ queryResponse \in FaultyResponses) =>
           (outcome = "failed" /\ error = FailedToProcess /\ ~isLoading)

C5_Witness ==
    /\ outcome = "failed"
    /\ queryResponse = Obj(<<Ent(S_data, Arr(<<PlainRow, Null>>))>> \o ScenarioFields)
    /\ data # Arr(<<>>)


\* the keys of an object, in the order Object.entries yields them
Keys(o) == [j \in 1..Len(o.e) |-> o.e[j].key]

\* C11: transformLookerData preserves the number of rows, their order and
\* each row's keys: output row i has exactly the keys of input row i, in
\* their order, each holding null (null or absent value), the wrapper's
\* `value` (wrapper object) or the unchanged value; and output row i is what
\* input row i gives when it is transformed alone.
C11_RowsAndKeysPreserved ==
    trPc = "looker" =>
        /\ trOut.k = "array"
        /\ Len(trOut.e) = Len(trData.e)
        /\ \A i \in 1..Len(trData.e) :
              /\ Keys(trRow(i)) = Keys(trIn(i))
              /\ trRow(i) = transformLookerData(Arr(<<trIn(i)>>)).e[1].val
              /\ \A j \in 1..Len(trIn(i).e) :
                    trIn(i).e[j].val # Malformed
                        => trRow(i).e[j].val = ExpectedCell(trIn(i).e[j].val)

\* C11 witness: two rows with different keys, wrappers in both
C11_Witness ==
    /\ trPc = "looker"
    /\ Len(trData.e) = 2
    /\ trIn(1) = Obj(<<Ent(S_c, Bool(FALSE)), Ent(S_b, Wrapper(Num(0))),
                       Ent(S_a, Str(S_hi))>>)
    /\ trIn(2) = Obj(<<Ent(S_date, Null), Ent(S_count, WrapperRendered(Num(7), S_7_orders))>>)
    /\ trRow(1) = Obj(<<Ent(S_c, Bool(FALSE)), Ent(S_b, Num(0)), Ent(S_a, Str(S_hi))>>)
    /\ trRow(2) = Obj(<<Ent(S_date, Null), Ent(S_count, Num(7))>>)


(***************************************************************************)
(* SpecLabel: formatFieldLabel on every identifier of up to MaxLabelLen    *)
(* characters over a lower-case letter, an upper-case letter, the dot,     *)
(* the underscore and the space, and on the two identifiers of the spec.   *)
(***************************************************************************)
MaxLabelLen == 4

LabelChars == {"a", "B", ".", "_", " "}

RECURSIVE StringsUpTo(_)
StringsUpTo(n) ==
    IF n = 0 THEN {<<>>}
    ELSE LET shorter == StringsUpTo(n - 1)
         IN shorter \cup {Append(t, ch) : t \in {x \in shorter : Len(x) = n - 1},
                                          ch \in LabelChars}

S_view_total_order_count ==
    <<"v", "i", "e", "w", ".", "t", "o", "t", "a", "l", "_", "o", "r", "d", "e", "r", "_",
      "c", "o", "u", "n", "t">>

S_Total_Order_Count ==
    <<"T", "o", "t", "a", "l", " ", "O", "r", "d", "e", "r", " ", "C", "o", "u", "n", "t">>

S_Revenue == <<"R", "e", "v", "e", "n", "u", "e">>

FlNames == StringsUpTo(MaxLabelLen) \cup {S_view_total_order_count, S_Revenue}

InitLabel ==
    /\ IdleValue
    /\ IdleRows
    /\ IdleCtl
    /\ IdleHeader
    /\ IdleConfig
    /\ IdleCell
    /\ IdleSource
    /\ flName \in FlNames
    /\ flResult = <<>>
    /\ flPc = "ready"

FlFormat ==
    /\ flPc = "ready"
    /\ flResult' = formatFieldLabel(flName)
    /\ flPc' = "done"
    /\ UNCHANGED <<flName, exceptLabel>>

NextLabel == FlFormat

SpecLabel == InitLabel /\ [][NextLabel]_vars

RECURSIVE LastSegment(_)
\* the characters after the last dot
LastSegment(chars) ==
    IF \E i \in 1..Len(chars) : chars[i] = "." THEN LastSegment(Tail(chars)) ELSE chars

RECURSIVE Runs(_, _)
\* the words of a segment: its maximal runs of characters that are neither
\* an underscore nor whitespace
Runs(chars, cur) ==
    IF chars = <<>> THEN (IF cur = <<>> THEN <<>> ELSE <<cur>>)
    ELSE IF IsWordBreak(Head(chars))
         THEN (IF cur = <<>> THEN <<>> ELSE <<cur>>) \o Runs(Tail(chars), <<>>)
         ELSE Runs(Tail(chars), Append(cur, Head(chars)))

RECURSIVE SpaceJoined(_)
\* the words, each first-upper rest-lower, with one space between two words
SpaceJoined(words) ==
    IF words = <<>> THEN <<>>
    ELSE LET w == Head(words)
             t == <<ToUpper(w[1])>> \o [i \in 1..(Len(w) - 1) |-> ToLower(w[i + 1])]
         IN IF Len(words) = 1 THEN t ELSE t \o <<" ">> \o SpaceJoined(Tail(words))

NoStraySpace(chars) ==
    /\ chars # <<>> => (chars[1] # " " /\ chars[Len(chars)] # " ")
    /\ \A i \in 1..(Len(chars) - 1) : ~(chars[i] = " " /\ chars[i + 1] = " ")

\* C12 as claimed: for every identifier the label is the words of the last
\* dot-delimited segment, title-cased and joined by one space, with no
\* leading, trailing or doubled space.
C12_LabelIsTitleCasedWords ==
    flPc = "done" =>
        /\ flResult = SpaceJoined(Runs(LastSegment(flName), <<>>))
        /\ NoStraySpace(flResult)

\* the last segment neither begins nor ends with an underscore or whitespace
CleanEnds(chars) ==
    LET seg == LastSegment(chars)
    IN seg # <<>> => (~IsWordBreak(seg[1]) /\ ~IsWordBreak(seg[Len(seg)]))

\* C12 amended: the same, for identifiers whose last segment neither begins
\* nor ends with an underscore or whitespace; "view.total_order_count"
\* gives "Total Order Count" and "Revenue" gives "Revenue".
C12_LabelOfCleanSegment ==
    (flPc = "done" /\ CleanEnds(flName)) =>
        /\ flResult = SpaceJoined(Runs(LastSegment(flName), <<>>))
        /\ NoStraySpace(flResult)
        /\ flName = S_view_total_order_count => flResult = S_Total_Order_Count
        /\ flName = S_Revenue => flResult = S_Revenue

\* C12 witness: two words after a dot, one lower-case and one upper-case
C12_Witness ==
    /\ flPc = "done"
    /\ flName = <<".", "a", "_", "B">>
    /\ flResult = <<"A", " ", "B">>


(***************************************************************************)
(* SpecTable: the controller with the interactive state of the table: the  *)
(* host delivers responses and saved configurations; the user pages,       *)
(* picks a page size, types in the search box and sorts.                   *)
(***************************************************************************)
TableResponses ==
    {Undefined, LongResponse, ScenarioResponse, NestedEmptyResponse,
     Obj(<<Ent(S_data, Arr(<<PlainRow, Null>>))>> \o ScenarioFields)}

TableConfigs ==
    {Obj(<<>>),
     Obj(<<Ent(S_title, Str(S_hi))>>),
     Obj(<<Ent(S_rows_per_page, Num(20))>>),
     Obj(<<Ent(S_enable_column_filters, Bool(FALSE))>>),
     Obj(<<Ent(S_enable_search, Bool(FALSE))>>)}

FilterTexts == {<<>>, <<"x">>}

InitTable ==
    /\ IdleValue
    /\ IdleRows
    /\ IdleLabel
    /\ IdleHeader
    /\ IdleConfig
    /\ IdleCell
    /\ IdleSource
    /\ IdleCtl

NextTable ==
    \/ \E response \in TableResponses : DataLoadEffect(response)
    \/ \E saved \in TableConfigs : ConfigEffect(saved)
    \/ PaginationResetEffect
    \/ FirstPage
    \/ PreviousPage
    \/ NextPage
    \/ LastPage
    \/ \E size \in PickedSizes : SetPageSize(size)
    \/ \E text \in FilterTexts : SetGlobalFilter(text)
    \/ \E desc \in BOOLEAN : SetSorting(<<[id |-> columns[1].id, desc |-> desc]>>)
    \/ SetSorting(<<>>)

SpecTable == InitTable /\ [][NextTable]_vars

(***************************************************************************)
(* The setConfig updater on its own: saved configurations are applied one  *)
(* after the other to the config state of a mounted Visualization.         *)
(***************************************************************************)
S_20 == <<"2", "0">>

S_abc == <<"a", "b", "c">>

S_diagonal == <<"d", "i", "a", "g", "o", "n", "a", "l">>

S_false == <<"f", "a", "l", "s", "e">>

FeatureKeys ==
    <<S_enable_column_filters, S_enable_row_selection, S_enable_pinning, S_enable_grouping>>

\* the saved configuration that switches off the features of the set off
FlagsOff(off) ==
    Obj(SelectSeq([i \in 1..4 |-> Ent(FeatureKeys[i], Bool(FALSE))],
                  LAMBDA entry : \E i \in off : FeatureKeys[i] = entry.key))

\* saved configurations: none, every combination of the four feature flags
\* switched off, and one key holding a valid value, a value of another type
\* or a value outside the declared ones
CfSavedConfigs ==
    {Null}
    \cup {FlagsOff(off) : off \in SUBSET (1..4)}
    \cup {Obj(<<Ent(S_title_alignment, v)>>) :
            v \in {Str(S_center), Str(S_diagonal), Str(<<>>), Num(7)}}
    \cup {Obj(<<Ent(S_column_resize_mode, v)>>) : v \in {Str(S_onEnd), Bool(TRUE)}}
    \cup {Obj(<<Ent(S_rows_per_page, v)>>) :
            v \in {Num(20), Str(S_20), Str(S_abc), Num(0), Null, Obj(<<>>)}}
    \cup {Obj(<<Ent(S_title_size, v)>>) : v \in {Num(24), Str(S_abc)}}
    \cup {Obj(<<Ent(S_enable_pinning, v)>>) :
            v \in {Bool(TRUE), Num(0), Str(S_false), Null}}
    \cup {Obj(<<Ent(S_enable_search, v)>>) : v \in {Bool(FALSE), Str(<<>>)}}

InitConfig ==
    /\ IdleValue
    /\ IdleRows
    /\ IdleCtl
    /\ IdleLabel
    /\ IdleHeader
    /\ IdleCell
    /\ IdleSource
    /\ IdleConfig

\* the config update effect (lines 448-487) run with one saved configuration
ApplySaved(saved) ==
    LET update == setConfigUpdater(cfConfig, Or(saved, Obj(<<>>)))
    IN /\ cfPrevSaved' = cfSaved
       /\ cfSaved' = saved
       /\ cfPrev' = cfConfig
       /\ cfConfig' = update.config
       /\ cfChanged' = update.changed
       /\ cfPc' = IF cfPc = "mounted" THEN "applied" ELSE "reapplied"
       /\ UNCHANGED exceptConfig

NextConfig == \E saved \in CfSavedConfigs : ApplySaved(saved)

SpecConfig == InitConfig /\ [][NextConfig]_vars


(***************************************************************************)
(* C13                                                                     *)
(***************************************************************************)
\* the saved configuration the last run mapped
MappedSaved == Or(cfSaved, Obj(<<>>))

\* the enum keys with their declared values (lines 262-266, 307-311,
\* 340-343, 440-443)
EnumFieldsValid ==
    /\ Get(cfConfig, S_titleAlignment) \in {Str(S_left), Str(S_center), Str(S_right)}
    /\ Get(cfConfig, S_titlePadding) \in {Str(S_compact), Str(S_normal), Str(S_relaxed)}
    /\ Get(cfConfig, S_subtitlePosition) \in {Str(S_right), Str(S_below)}
    /\ Get(cfConfig, S_columnResizeMode) \in {Str(S_onChange), Str(S_onEnd)}

NumericKeys ==
    {<<S_title_size, S_titleSize, 16>>, <<S_title_weight, S_titleWeight, 500>>,
     <<S_subtitle_size, S_subtitleSize, 14>>, <<S_rows_per_page, S_rowsPerPage, 10>>}

NumericFieldsValid ==
    \A key \in NumericKeys :
        LET mapped == Get(cfConfig, key[2])
        IN /\ mapped.k = "number"
           /\ mapped # NaN
           /\ Number(Get(MappedSaved, key[1])) = NaN => mapped = Num(key[3])

BooleanKeys ==
    {<<S_enable_search, S_enableSearchBar>>,
     <<S_enable_expand_collapse, S_enableExpandCollapse>>,
     <<S_enable_column_resizing, S_enableColumnResizing>>,
     <<S_enable_row_selection, S_enableRowSelection>>,
     <<S_enable_column_filters, S_enableColumnFilters>>,
     <<S_enable_pinning, S_enablePinning>>,
     <<S_enable_grouping, S_enableGrouping>>}

BooleanFieldsValid ==
    \A key \in BooleanKeys :
        Get(cfConfig, key[2]) =
            IF Get(MappedSaved, key[1]) = Bool(FALSE) THEN Bool(FALSE) ELSE Bool(TRUE)

\* C13: after the updater has mapped a saved configuration, every enum key
\* of the configuration holds one of its declared values, every numeric key
\* holds a number (the default when the coercion of the saved value fails),
\* and every boolean key holds its default true unless the saved value is
\* the boolean false.
C13_MappedConfigIsTypedAndInDomain ==
    cfPc # "mounted" => EnumFieldsValid /\ NumericFieldsValid /\ BooleanFieldsValid

\* the numeric part alone holds of the code
C13_NumericFieldsAreNumbers == cfPc # "mounted" => NumericFieldsValid


(***************************************************************************)
(* C14                                                                     *)
(***************************************************************************)
\* the last run mapped its saved configuration to a configuration with the
\* JSON text of the configuration it found
MappedToEqual ==
    JSONstringify(newConfigOf(cfPrev, MappedSaved)) = JSONstringify(cfPrev)

\* the last run left the state alone: the updater handed back the previous
\* value, and the feature configuration the columns are built from is the
\* one before
StateKept ==
    /\ ~cfChanged
    /\ cfConfig = cfPrev
    /\ tableFeatures(cfConfig) = tableFeatures(cfPrev)

\* C14: a run of the updater whose saved configuration maps to a
\* configuration structurally equal to the current one keeps the current
\* value (no state update, no new feature configuration); in particular a
\* saved configuration applied again right after itself changes nothing.
C14_ConfigUpdateIsIdempotent ==
    /\ (cfPc # "mounted" /\ MappedToEqual) => StateKept
    /\ (cfPc = "reapplied" /\ cfSaved = cfPrevSaved) => StateKept

\* a saved configuration that switches features off has been applied twice
\* in a row
C14_Witness ==
    /\ cfPc = "reapplied"
    /\ cfSaved = cfPrevSaved
    /\ cfSaved = FlagsOff({1, 3})
    /\ cfConfig # initialConfig
    /\ StateKept


(***************************************************************************)
(* One CollapsibleHeader on its own: the parent holds isExpanded and hands *)
(* down isLoading and enableExpandCollapse; the user clicks the header and *)
(* presses keys on it.                                                     *)
(***************************************************************************)
HdKeys ==
    {"Enter", " ", "Escape", "Tab", "a", "e", "Shift", "Home", "End", "ArrowDown",
     "ArrowUp", "Spacebar"}

InitHeader ==
    /\ IdleValue
    /\ IdleRows
    /\ IdleCtl
    /\ IdleLabel
    /\ IdleConfig
    /\ IdleCell
    /\ IdleSource
    /\ IdleHeader

\* the header rendered again after an event
HdRender(event, loading, enabled, expanded) ==
    /\ hdEvent' = event
    /\ hdBefore' = hdExpanded
    /\ hdLoading' = loading
    /\ hdEnabled' = enabled
    /\ hdExpanded' = expanded
    /\ hdMounted' = ContentMounted(expanded, enabled)
    /\ UNCHANGED exceptHeader

HdClick ==
    HdRender("click", hdLoading, hdEnabled, handleClick(hdLoading, hdEnabled, hdExpanded))

HdKeyDown(key) ==
    HdRender(key, hdLoading, hdEnabled,
             handleHeaderKeyDown(key, hdLoading, hdEnabled, hdExpanded))

\* the parent hands down another isLoading
HdSetLoading(loading) ==
    loading # hdLoading /\ HdRender("isLoading", loading, hdEnabled, hdExpanded)

\* the parent hands down another enableExpandCollapse
HdSetEnabled(enabled) ==
    enabled # hdEnabled /\ HdRender("enableExpandCollapse", hdLoading, enabled, hdExpanded)

NextHeader ==
    \/ HdClick
    \/ \E key \in HdKeys : HdKeyDown(key)
    \/ \E loading \in BOOLEAN : HdSetLoading(loading)
    \/ \E enabled \in BOOLEAN : HdSetEnabled(enabled)

SpecHeader == InitHeader /\ [][NextHeader]_vars

(***************************************************************************)
(* C15                                                                     *)
(***************************************************************************)
\* the last event was a click or a key press
HdTriggered == hdEvent = "click" \/ hdEvent \in HdKeys

\* the last event was a click, Enter or Space
HdToggleTrigger == hdEvent \in {"click", "Enter", " "}

\* C15: the expanded state is one of two; after a click or an Enter or
\* Space key press given while expand/collapse is enabled and the header is
\* not loading the state is the opposite of the state before, and after a
\* click or key press in any other case (loading, feature disabled, another
\* key) it is the state before.
C15_ToggleOnlyWhenEnabledAndNotLoading ==
    /\ hdExpanded \in BOOLEAN
    /\ (HdToggleTrigger /\ hdEnabled /\ ~hdLoading) => hdExpanded = ~hdBefore
    /\ (HdTriggered /\ ~(HdToggleTrigger /\ hdEnabled /\ ~hdLoading)) => hdExpanded = hdBefore

\* Space has collapsed an expanded header
C15_Witness ==
    hdEvent = " " /\ hdEnabled /\ ~hdLoading /\ hdBefore /\ ~hdExpanded

\* a click on a collapsed header that is loading has left it collapsed
C15_WitnessInert ==
    hdEvent = "click" /\ hdEnabled /\ hdLoading /\ ~hdBefore /\ ~hdExpanded

(***************************************************************************)
(* C16                                                                     *)
(***************************************************************************)
\* C16: the content of the header is mounted exactly when the header is
\* expanded or expand/collapse is disabled; switching the feature off or on
\* leaves the expanded state as it is, so that content the user collapsed
\* is mounted while the feature is off and unmounted again once it is on.
C16_ContentMountedIffExpandedOrDisabled ==
    /\ hdMounted <=> (hdExpanded \/ ~hdEnabled)
    /\ hdEvent = "enableExpandCollapse" => hdExpanded = hdBefore

\* the feature has been switched off over a collapsed header
C16_Witness ==
    hdEvent = "enableExpandCollapse" /\ ~hdEnabled /\ ~hdExpanded /\ hdMounted

\* the feature has been switched on again over a collapsed header
C16_WitnessReenabled ==
    hdEvent = "enableExpandCollapse" /\ hdEnabled /\ ~hdExpanded /\ ~hdMounted


(***************************************************************************)
(* C17                                                                     *)
(***************************************************************************)
\* the capability flags of a column are those of the configuration
FlagsOfConfig(column) ==
    /\ column.enableColumnFilter = Get(config, S_enableColumnFilters)
    /\ column.enablePinning = Get(config, S_enablePinning)
    /\ column.enableGrouping = Get(config, S_enableGrouping)
    /\ column.enableResizing = Get(config, S_enableColumnResizing)

\* the effects that follow a render have run
ReactionsDone == ~reloadDue /\ ~resetPending

\* C17 as stated: once the reactions to a change have run, every column
\* definition the table logic holds carries the capability flags of the
\* current configuration.
C17_ColumnsCarryCurrentFlags ==
    ReactionsDone => \A i \in 1..Len(columns) : FlagsOfConfig(columns[i])

\* C17: once the reactions to a change have run, every column definition
\* of a table that is on screen (no error, not loading) carries the
\* capability flags of the current configuration.
C17_ShownColumnsCarryCurrentFlags ==
    TableShown => \A i \in 1..Len(columns) : FlagsOfConfig(columns[i])

\* the table is on screen with columns rebuilt after pinning and grouping
\* were switched off
C17_Witness ==
    /\ TableShown
    /\ columns # <<>>
    /\ Get(config, S_enablePinning) = Bool(FALSE)
    /\ \A i \in 1..Len(columns) :
           columns[i].enablePinning = Bool(FALSE) /\ columns[i].enableColumnFilter = Bool(TRUE)


(***************************************************************************)
(* The cell renderer on its own, applied to one cell value.                *)
(***************************************************************************)
ClPrimitives ==
    {Num(0), Num(5), Num(12), Num(0 - 3), Num(999), Num(1000), Num(1234), Num(0 - 1234),
     Num(1234567), Str(<<>>), Str(S_hi), Str(S_7_orders), Str(S_2024_01_01),
     Bool(TRUE), Bool(FALSE)}

ClValues ==
    ClPrimitives
    \cup {Null, Undefined}
    \cup {Wrapper(v) : v \in ClPrimitives \cup {Null, Undefined, Wrapper(Num(1))}}
    \cup {Obj(<<Ent(S_value, v), Ent(S_rendered, r)>>) :
            v \in {Num(0), Num(7), Null, Bool(FALSE)},
            r \in {Str(S_7_orders), Str(<<>>), Null}}
    \cup {Obj(<<>>), Obj(<<Ent(S_a, Num(1))>>), Obj(<<Ent(S_rendered, Str(S_hi))>>),
          Obj(<<Ent(S_a, Wrapper(Num(1)))>>), Arr(<<>>), Arr(<<Num(1), Str(S_hi)>>)}

InitCell ==
    /\ IdleValue
    /\ IdleRows
    /\ IdleCtl
    /\ IdleLabel
    /\ IdleHeader
    /\ IdleConfig
    /\ IdleSource
    /\ clValue \in ClValues
    /\ clResult = Pending
    /\ clPc = "ready"

\* the table renders the cell
ClRender ==
    /\ clPc = "ready"
    /\ clResult' = cell(clValue)
    /\ clPc' = "rendered"
    /\ UNCHANGED <<clValue, exceptCell>>

NextCell == ClRender

SpecCell == InitCell /\ [][NextCell]_vars

(***************************************************************************)
(* C19                                                                     *)
(***************************************************************************)
Present(v) == v.k \notin {"null", "undefined"}

\* the policy of the claim, in its order
CellPolicy(value) ==
    IF ~Present(value) THEN Str(S_dash)
    ELSE IF IsObject(value) /\ HasKey(value, S_value)
         THEN IF Present(Get(value, S_rendered)) THEN Get(value, S_rendered)
              ELSE IF Present(Get(value, S_value)) THEN Get(value, S_value)
              ELSE Str(S_dash)
    ELSE IF IsObject(value) THEN Str(JSONstringify(value))
    ELSE IF value.k = "number" THEN Str(toLocaleString(value.n))
    ELSE value

\* C19: a rendered cell shows the placeholder '-' for null or an absent
\* value; for a wrapper object its `rendered` when present, otherwise its
\* `value` when present (0 and false included), otherwise the placeholder;
\* for another object its JSON text; for a number its locale-formatted
\* text; and any other value as it is.
C19_CellFollowsPolicy == clPc = "rendered" => clResult = CellPolicy(clValue)

\* the policy holds of every cell value whose wrapper fields are truthy or
\* absent
C19_CellFollowsPolicyOnTruthyFields ==
    (/\ clPc = "rendered"
     /\ (IsObject(clValue) /\ HasKey(clValue, S_value)) =>
            \A key \in {S_rendered, S_value} :
                Present(Get(clValue, key)) => Truthy(Get(clValue, key)))
    => clResult = CellPolicy(clValue)


(***************************************************************************)
(* The try block of handleDataUpdate on its own, applied to one query      *)
(* response: the nested and the top-level data field are each absent,      *)
(* null or a sequence of rows, and the two never hold the same rows.       *)
(***************************************************************************)
CountRow(n) == Obj(<<Ent(S_count, Num(n))>>)

\* the entries that hold the nested field
DsNestedEntries ==
    {<<>>, <<Ent(S__queryResponse, Null)>>, <<Ent(S__queryResponse, Obj(<<>>))>>}
    \cup {<<Ent(S__queryResponse, Obj(<<Ent(S_data, d)>>))>> :
            d \in {Undefined, Null, Arr(<<>>), Arr(<<CountRow(1)>>),
                   Arr(<<CountRow(1), CountRow(2)>>)}}

\* the entries that hold the top-level field
DsTopEntries ==
    {<<>>}
    \cup {<<Ent(S_data, d)>> :
            d \in {Undefined, Null, Arr(<<>>), Arr(<<CountRow(3)>>),
                   Arr(<<CountRow(3), CountRow(4)>>),
                   Arr(<<CountRow(3), CountRow(4), CountRow(5)>>)}}

DsResponses ==
    {Undefined, Null}
    \cup {Obj(top \o nested \o ScenarioFields) :
            top \in DsTopEntries, nested \in DsNestedEntries}

InitSource ==
    /\ IdleValue
    /\ IdleRows
    /\ IdleCtl
    /\ IdleLabel
    /\ IdleHeader
    /\ IdleConfig
    /\ IdleCell
    /\ dsResponse \in DsResponses
    /\ dsRaw = Arr(<<>>)
    /\ dsResult = [kind |-> "idle"]
    /\ dsPc = "ready"

\* the try block of handleDataUpdate (lines 168-215) run for the response
DsUpdate ==
    /\ dsPc = "ready"
    /\ dsRaw' = rawDataOf(dsResponse)
    /\ dsResult' = TryDataUpdate(dsResponse, tableFeatures(initialConfig))
    /\ dsPc' = "updated"
    /\ UNCHANGED <<dsResponse, exceptSource>>

NextSource == DsUpdate

SpecSource == InitSource /\ [][NextSource]_vars

(***************************************************************************)
(* C20                                                                     *)
(***************************************************************************)
DsNested == Optional(Optional(dsResponse, S__queryResponse), S_data)

DsTop == Optional(dsResponse, S_data)

\* the rows the policy of the claim resolves
DsExpected ==
    IF Present(DsNested) THEN DsNested ELSE IF Present(DsTop) THEN DsTop ELSE Arr(<<>>)

\* C20: a data update uses the rows of the nested field _queryResponse.data
\* when that field is present, otherwise those of the top-level field data
\* when it is present, otherwise no rows; the rows it stores are the
\* normalized rows of that source, and with no rows it stores none.
C20_NestedThenTopThenEmpty ==
    dsPc = "updated" =>
        /\ dsRaw = DsExpected
        /\ Present(DsNested) => dsRaw = DsNested
        /\ dsResult.kind = (IF DsExpected.e = <<>> THEN "nodata" ELSE "committed")
        /\ dsResult.kind = "committed" => dsResult.data = transformQueryData(DsExpected)

\* both fields hold rows and the nested ones were used
C20_Witness ==
    /\ dsPc = "updated"
    /\ DsNested = Arr(<<CountRow(1), CountRow(2)>>)
    /\ DsTop = Arr(<<CountRow(3)>>)
    /\ dsRaw = DsNested
    /\ dsResult.kind = "committed"
    /\ Len(dsResult.data.e) = 2


(***************************************************************************)
(* C18                                                                     *)
(***************************************************************************)
\* the options useTableLogic hands to the table engine under the feature
\* configuration of cfConfig, before any data
CfTableOptions ==
    tableOptions(Arr(<<>>), Arr(<<>>), 0, DefaultPageSize, tableFeatures(cfConfig))

\* a feature: its flag, its state, its change handler, its row models
Features ==
    {[flag |-> S_enableColumnFilters, state |-> S_columnFilters,
      handler |-> S_onColumnFiltersChange, models |-> {S_getFilteredRowModel}],
     [flag |-> S_enableRowSelection, state |-> S_rowSelection,
      handler |-> S_onRowSelectionChange, models |-> {}],
     [flag |-> S_enablePinning, state |-> S_columnPinning,
      handler |-> S_onColumnPinningChange, models |-> {}],
     [flag |-> S_enableGrouping, state |-> S_expanded,
      handler |-> S_onExpandedChange,
      models |-> {S_getGroupedRowModel, S_getExpandedRowModel}]}

FeatureEnabled(f) == Truthy(Get(cfConfig, f.flag))

\* the state and the change handler of the feature are both in the options
StateAndHandlerIn(f) ==
    HasKey(Get(CfTableOptions, S_state), f.state) /\ HasKey(CfTableOptions, f.handler)

\* neither the state nor the change handler of the feature is in the options
StateAndHandlerOut(f) ==
    ~HasKey(Get(CfTableOptions, S_state), f.state) /\ ~HasKey(CfTableOptions, f.handler)

\* C18 as stated: for each of the four features, whatever the other flags,
\* the state, the change handler and the row models of the feature (the
\* table engine has none for row selection and pinning) are all in the
\* options when its flag is enabled and all left out when it is disabled.
C18_StateHandlerAndModelIffEnabled ==
    \A f \in Features :
        IF FeatureEnabled(f)
        THEN StateAndHandlerIn(f) /\ \A mdl \in f.models : HasKey(CfTableOptions, mdl)
        ELSE StateAndHandlerOut(f) /\ \A mdl \in f.models : ~HasKey(CfTableOptions, mdl)

\* C18: for each of the four features, whatever the other flags, the state
\* and the change handler of the feature are in the options exactly when
\* its flag is enabled; the grouped and expanded row models are in the
\* options exactly when grouping is enabled; the filtered row model is in
\* the options whatever the flags.
C18_StateAndHandlerIffEnabled ==
    /\ \A f \in Features :
           IF FeatureEnabled(f) THEN StateAndHandlerIn(f) ELSE StateAndHandlerOut(f)
    /\ \A mdl \in {S_getGroupedRowModel, S_getExpandedRowModel} :
           HasKey(CfTableOptions, mdl) <=> Truthy(Get(cfConfig, S_enableGrouping))
    /\ HasKey(CfTableOptions, S_getFilteredRowModel)

\* column filters and pinning are switched off, row selection and grouping
\* are on
C18_Witness ==
    /\ cfPc # "mounted"
    /\ Get(cfConfig, S_enableColumnFilters) = Bool(FALSE)
    /\ Get(cfConfig, S_enablePinning) = Bool(FALSE)
    /\ Get(cfConfig, S_enableRowSelection) = Bool(TRUE)
    /\ Get(cfConfig, S_enableGrouping) = Bool(TRUE)
    /\ ~HasKey(Get(CfTableOptions, S_state), S_columnFilters)
    /\ HasKey(Get(CfTableOptions, S_state), S_rowSelection)
    /\ HasKey(CfTableOptions, S_getGroupedRowModel)


(***************************************************************************)
(* C21                                                                     *)
(***************************************************************************)
\* config.rowsPerPage
RowsPerPage == Get(config, S_rowsPerPage).n

\* no rows have been committed since the mount: the table, and with it the
\* page-size selector, has not been on screen
NeverShown == data.e = <<>>

\* C21: once a saved configuration has been applied and the reactions to
\* it have run, the page size of the table equals the configured
\* rows-per-page, as long as the user has had no page-size selector to pick
\* another size from.
C21_PageSizeFollowsRowsPerPage ==
    (hasInitialConfig /\ ReactionsDone /\ NeverShown) => pageSize = RowsPerPage


(***************************************************************************)
(* C22                                                                     *)
(***************************************************************************)
\* C22: whenever the table is on screen, after any pager clicks, page-size
\* selections, search texts and data updates, the page index is not
\* negative, is below the page count when there are pages, and is 0 when
\* there are none.
C22_PageIndexInRange ==
    TableShown =>
        /\ pageIndex >= 0
        /\ PageCount > 0 => pageIndex < PageCount
        /\ PageCount = 0 => pageIndex = 0


(***************************************************************************)
(* C23                                                                     *)
(***************************************************************************)
\* what the try block of the update that has just run leaves to be committed
LastTry == TryDataUpdate(queryResponse', tableFeatures(config))

\* C23: a step that ends in 'No data available' or in 'Failed to process
\* visualization data' leaves rows, columns and page index as they were;
\* rows or columns change only in a step that is a successful update, which
\* stores the rows and the columns of one response together and clears the
\* error.
C23_FailedUpdateKeepsTable ==
    [][/\ outcome' \in {"nodata", "failed"} =>
              (data' = data /\ columns' = columns /\ pageIndex' = pageIndex)
       /\ (data' # data \/ columns' # columns) =>
              /\ outcome' = "committed"
              /\ error' = NoError
              /\ LastTry.kind = "committed"
              /\ data' = LastTry.data
              /\ columns' = LastTry.columns]_vars

\* an update has failed while the second page of eleven committed rows was
\* on screen
C23_Witness ==
    /\ outcome = "failed"
    /\ error = FailedToProcess
    /\ Len(data.e) = MaxDataRows
    /\ Len(columns) = 2
    /\ pageIndex = 1


(***************************************************************************)
(* C24                                                                     *)
(***************************************************************************)
\* the step changes the configuration and none of the fields of
\* tableFeatures (feature flags, resize mode, rows per page)
PresentationOnlyUpdate ==
    config' # config /\ tableFeatures(config') = tableFeatures(config)

\* C24: a configuration update that changes only title, subtitle,
\* search-bar or expand/collapse settings leaves columns, rows, page index,
\* sort order and global filter text as they were, and makes neither the
\* data load effect (the column rebuild) nor the pagination reset due.
C24_PresentationUpdateKeepsTableState ==
    [][PresentationOnlyUpdate =>
           /\ columns' = columns
           /\ data' = data
           /\ pageIndex' = pageIndex
           /\ sorting' = sorting
           /\ globalFilter' = globalFilter
           /\ ~reloadDue'
           /\ ~resetPending']_vars

\* the search bar has been switched off over a sorted table that shows the
\* second page under a search text
C24_Witness ==
    /\ TableShown
    /\ Get(config, S_enableSearchBar) = Bool(FALSE)
    /\ globalFilter = <<"x">>
    /\ sorting # <<>>
    /\ pageIndex = 1
    /\ PageRows > 0

====
